---- MODULE Spec2Model ----
(***************************************************************************)
(* Change detection and insight generation of android-risk-agents:         *)
(* the snapshots / changes / insights tables of the content store, the     *)
(* Change Detector (detect_changes.main), the Baseline Bootstrapper        *)
(* (db.create_baseline_changes), the two Insight Generators                *)
(* (generate_insights_groq.run, generate_insights_monstral                 *)
(* .run_insights_pipeline) and the Insight Store Writer                    *)
(* (db.insert_insight); also the retry loop of one LLM call                *)
(* (generate_insights_monstral._call_chat_json) and the page ingestor      *)
(* (scrape_sources.scrape_and_store), each under a specification of its    *)
(* own.                                                                    *)
(*                                                                         *)
(* Conventions.                                                            *)
(*  - A table is a sequence of rows; a row's id is its position (serial    *)
(*    primary key, rows are never deleted).                                *)
(*  - Python None / SQL NULL is <<>> and a present value v is <<v>>.       *)
(*  - A text is a sequence of tokens (one-character strings, or a literal  *)
(*    of the program kept in one piece); whitespace tokens are " ", "\n".  *)
(*  - A float is an integer number of hundredths (0.55 is 55).             *)
(*  - A JSON value of an LLM reply is a record [t, n, s, l]: its type tag, *)
(*    its number, its text, its list items.                                *)
(***************************************************************************)
EXTENDS Integers, Sequences, FiniteSets, TLC

(* ------------------------------ bounds --------------------------------- *)
NumSources == 2      \* rows of the sources table
NumHashes == 2       \* distinct page contents (content_hash values)
MaxSnaps == 3        \* rows of the snapshots table
MaxSections == 2     \* sections one ingest run stores (TOP_N, scaled down)
MaxClock == 4              \* ticks of the clock when runs follow one another
MaxClockInterleaved == 3   \* ticks of the clock when runs interleave
BaselineLimit == 1   \* create_baseline_changes(limit=50), scaled down
FetchLimit == 2      \* get_uninsighted_changes(limit=25), scaled down

(* -------------------------- program constants -------------------------- *)
RELEVANCE_THRESHOLD == 70
MaxCategoryLen == 80
MaxTitleLen == 120
MaxSummaryLen == 1200
MaxHintLen == 200
MaxListItems == 5
MaxSignalLen == 120
MaxActionLen == 140
DefaultConfidence == 60
NotRelevantConfidence == 55
NotRelevantRisk == 1
MinRisk == 1
MaxRisk == 5
MinConfidence == 0
MaxConfidence == 100
WindowFactor == 3

Sources == 1..NumSources
Hashes == 1..NumHashes
Procs == {"p1", "p2"}

None == <<>>
Some(v) == <<v>>

Min2(a, b) == IF a <= b THEN a ELSE b
Max2(a, b) == IF a >= b THEN a ELSE b
Take(s, n) == SubSeq(s, 1, Min2(n, Len(s)))

(* ------------------------- JSON values of a reply ---------------------- *)
JMissing == [t |-> "missing", n |-> 0, s |-> <<>>, l |-> <<>>]
JNull == [t |-> "null", n |-> 0, s |-> <<>>, l |-> <<>>]
JBool(b) == [t |-> "bool", n |-> IF b THEN 1 ELSE 0, s |-> <<>>, l |-> <<>>]
JInt(k) == [t |-> "int", n |-> k, s |-> <<>>, l |-> <<>>]
JNum(h) == [t |-> "num", n |-> h, s |-> <<>>, l |-> <<>>]
JStr(x) == [t |-> "str", n |-> 0, s |-> x, l |-> <<>>]
JList(x) == [t |-> "list", n |-> 0, s |-> <<>>, l |-> x]

\* dict.get(key, default): the default only when the key is absent
Get(v, default) == IF v.t = "missing" THEN default ELSE v

IsSpace(c) == c \in {" ", "\n", "\t"}

RECURSIVE LStrip(_)
LStrip(s) == IF s # <<>> /\ IsSpace(Head(s)) THEN LStrip(Tail(s)) ELSE s

RECURSIVE RStrip(_)
RStrip(s) ==
  IF s # <<>> /\ IsSpace(s[Len(s)]) THEN RStrip(SubSeq(s, 1, Len(s) - 1)) ELSE s

\* str.strip()
Strip(s) == RStrip(LStrip(s))

DigitChar(d) == <<"0", "1", "2", "3", "4", "5", "6", "7", "8", "9">>[d + 1]
IsDigit(c) == c \in {"0", "1", "2", "3", "4", "5", "6", "7", "8", "9"}
DigitVal(c) == CHOOSE d \in 0..9 : DigitChar(d) = c

RECURSIVE NatDigits(_)
NatDigits(k) ==
  IF k < 10 THEN <<DigitChar(k)>> ELSE NatDigits(k \div 10) \o <<DigitChar(k % 10)>>

\* str(int)
IntDigits(k) == IF k < 0 THEN <<"-">> \o NatDigits(0 - k) ELSE NatDigits(k)

\* str(x) of a JSON value
PyStr(v) ==
  CASE v.t = "str" -> v.s
    [] v.t = "null" -> <<"N", "o", "n", "e">>
    [] v.t = "int" -> IntDigits(v.n)
    [] v.t = "bool" -> IF v.n = 1 THEN <<"T", "r", "u", "e">>
                       ELSE <<"F", "a", "l", "s", "e">>
    [] v.t = "num" -> IntDigits(v.n \div 100) \o <<".">> \o NatDigits(v.n % 100)
    [] OTHER -> <<"[", "]">>

\* bool(x)
PyBool(v) ==
  CASE v.t = "bool" -> v.n = 1
    [] v.t = "null" -> FALSE
    [] v.t \in {"int", "num"} -> v.n # 0
    [] v.t = "str" -> v.s # <<>>
    [] v.t = "list" -> v.l # <<>>
    [] OTHER -> FALSE

AllDigits(s) == s # <<>> /\ \A i \in 1..Len(s) : IsDigit(s[i])

RECURSIVE DigitsValue(_)
DigitsValue(s) ==
  IF s = <<>> THEN 0 ELSE 10 * DigitsValue(SubSeq(s, 1, Len(s) - 1)) + DigitVal(s[Len(s)])

IsNeg(s) == s # <<>> /\ Head(s) = "-"

Unsigned(s) == IF s # <<>> /\ Head(s) \in {"-", "+"} THEN Tail(s) ELSE s

Signed(neg, mag) == IF neg THEN 0 - mag ELSE mag

IntOfBody(neg, body) == IF AllDigits(body) THEN Some(Signed(neg, DigitsValue(body))) ELSE None

IntOfStripped(s) == IntOfBody(IsNeg(s), Unsigned(s))

\* the text of an integer literal, sign first: None when it is not one
ParseInt(s0) == IntOfStripped(Strip(s0))

\* int(x): None stands for the exception it raises
PyInt(v) ==
  CASE v.t \in {"int", "bool"} -> Some(v.n)
    [] v.t = "num" -> Some(IF v.n >= 0 THEN v.n \div 100 ELSE 0 - ((0 - v.n) \div 100))
    [] v.t = "str" -> ParseInt(v.s)
    [] OTHER -> None

DotsOf(s) == {i \in 1..Len(s) : s[i] = "."}

\* the first two digits of a fraction, as hundredths
FracHundredths(f) ==
  IF f = <<>> THEN 0
  ELSE IF Len(f) = 1 THEN 10 * DigitVal(f[1])
  ELSE 10 * DigitVal(f[1]) + DigitVal(f[2])

\* where the fraction starts: the first ".", or the end
DotPos(body, dots) ==
  IF dots = {} THEN Len(body) + 1 ELSE CHOOSE i \in dots : \A j \in dots : i <= j

FloatOfParts(neg, dots, ip, fp) ==
  IF /\ Cardinality(dots) <= 1
     /\ ip \o fp # <<>>
     /\ \A i \in 1..Len(ip) : IsDigit(ip[i])
     /\ \A i \in 1..Len(fp) : IsDigit(fp[i])
  THEN Some(Signed(neg, 100 * DigitsValue(ip) + FracHundredths(fp)))
  ELSE None

FloatOfSplit(neg, body, dots, d) ==
  FloatOfParts(neg, dots, SubSeq(body, 1, d - 1), SubSeq(body, d + 1, Len(body)))

FloatOfBody(neg, body, dots) == FloatOfSplit(neg, body, dots, DotPos(body, dots))

FloatOfUnsigned(neg, body) == FloatOfBody(neg, body, DotsOf(body))

FloatOfStripped(s) == FloatOfUnsigned(IsNeg(s), Unsigned(s))

\* the text of a decimal literal, in hundredths: None when it is not one
ParseFloat(s0) == FloatOfStripped(Strip(s0))

\* float(x) in hundredths: None stands for the exception it raises
PyFloat(v) ==
  CASE v.t \in {"int", "bool"} -> Some(100 * v.n)
    [] v.t = "num" -> Some(v.n)
    [] v.t = "str" -> ParseFloat(v.s)
    [] OTHER -> None

(* ----------------------- generate_insights_groq.py --------------------- *)
AGENT_NAME == "groq-digital-risk-agent"
DefaultTitle == <<"Update detected">>
DefaultSummary == <<"Update detected. Details unknown.">>
DefaultTheme == <<"o", "t", "h", "e", "r">>
DefaultHint == <<"u", "n", "k", "n", "o", "w", "n">>

\* `x or default` on texts and lists, and `x if x else None`
OrDefault(x, default) == IF x # <<>> THEN x ELSE default
OrNone(x) == IF x # <<>> THEN Some(x) ELSE None

RECURSIVE AsListLoop(_, _, _, _)
RECURSIVE AsListItem(_, _, _, _, _)
RECURSIVE AsListAppended(_, _, _, _)

\* _as_list_of_str, lines 68-74: the loop over the items
AsListLoop(items, out, max_items, max_len) ==
  IF items = <<>> THEN out
  ELSE AsListItem(Strip(PyStr(Head(items))), Tail(items), out, max_items, max_len)

AsListItem(s, rest, out, max_items, max_len) ==
  IF s = <<>> THEN AsListLoop(rest, out, max_items, max_len)
  ELSE AsListAppended(rest, Append(out, Take(s, max_len)), max_items, max_len)

AsListAppended(rest, out, max_items, max_len) ==
  IF Len(out) >= max_items THEN out ELSE AsListLoop(rest, out, max_items, max_len)

\* _as_list_of_str: None for a missing value, a non-list and a list left empty
_as_list_of_str(x, max_items, max_len) ==
  IF x.t # "list" THEN None ELSE OrNone(AsListLoop(x.l, <<>>, max_items, max_len))

ClampConfidence(c) == Max2(MinConfidence, Min2(MaxConfidence, c))

\* a variant: the lower clamp alone
ClampRiskFromBelow(r) == Max2(MinRisk, r)

ClampRisk(r) == Max2(MinRisk, Min2(MaxRisk, r))

\* safe_output, lines 82-86
SafeCategory(c) ==
  IF c.t = "null" THEN None ELSE OrNone(Take(Strip(PyStr(c)), MaxCategoryLen))

\* safe_output, lines 91-95
ConfidenceOr(f) == ClampConfidence(IF f = None THEN DefaultConfidence ELSE f[1])
SafeConfidence(c) == ConfidenceOr(PyFloat(c))

\* safe_output, lines 97-103
RiskOr(r) == IF r = None THEN None ELSE Some(ClampRisk(r[1]))
SafeRisk(r) == IF r.t = "null" THEN None ELSE RiskOr(PyInt(r))

\* safe_output: obj has a JSON value (JMissing for an absent key) per field
safe_output(obj) ==
  [title |->
     Take(OrDefault(Strip(PyStr(Get(obj.title, JStr(<<>>)))), DefaultTitle), MaxTitleLen),
   summary |->
     Take(OrDefault(Strip(PyStr(Get(obj.summary, JStr(<<>>)))), DefaultSummary),
          MaxSummaryLen),
   category |-> SafeCategory(Get(obj.category, JNull)),
   affected_signals |->
     _as_list_of_str(Get(obj.affected_signals, JNull), MaxListItems, MaxSignalLen),
   recommended_actions |->
     _as_list_of_str(Get(obj.recommended_actions, JNull), MaxListItems, MaxActionLen),
   risk_score |-> SafeRisk(Get(obj.risk_score, JNull)),
   confidence |-> SafeConfidence(Get(obj.confidence, JNum(DefaultConfidence)))]

UpperLetters ==
  <<"A", "B", "C", "D", "E", "F", "G", "H", "I", "J", "K", "L", "M",
    "N", "O", "P", "Q", "R", "S", "T", "U", "V", "W", "X", "Y", "Z">>
LowerLetters ==
  <<"a", "b", "c", "d", "e", "f", "g", "h", "i", "j", "k", "l", "m",
    "n", "o", "p", "q", "r", "s", "t", "u", "v", "w", "x", "y", "z">>

LowerAt(c, hit) == IF hit = {} THEN c ELSE LowerLetters[CHOOSE i \in hit : TRUE]
LowerOf(c) == LowerAt(c, {i \in 1..Len(UpperLetters) : UpperLetters[i] = c})

\* str.lower()
Lower(s) == [i \in 1..Len(s) |-> LowerOf(s[i])]

\* needle in haystack
Contains(hay, needle) ==
  \E i \in 1..(Len(hay) - Len(needle) + 1) : SubSeq(hay, i, i + Len(needle) - 1) = needle

RelevanceWord == <<"r", "e", "l", "e", "v", "a", "n", "c", "e">>

(* The values the LLM endpoint may answer a triage call with: each field a  *)
(* JSON value.  The endpoint promises no schema.                            *)
TriagePasses ==
  [is_relevant |-> JBool(TRUE), relevance_score |-> JInt(90),
   primary_theme |-> JStr(<<"p">>), what_changed_hint |-> JStr(<<"h">>)]

TriageIrrelevant ==
  [is_relevant |-> JBool(FALSE), relevance_score |-> JInt(10),
   primary_theme |-> JStr(<<"o">>), what_changed_hint |-> JMissing]

TriageLowScore ==
  [is_relevant |-> JBool(TRUE), relevance_score |-> JStr(<<"6", "9">>),
   primary_theme |-> JStr(<<" ">>), what_changed_hint |-> JNull]

TriageReplies == {TriagePasses, TriageIrrelevant, TriageLowScore}

(* The values the LLM endpoint may answer an analysis call with.            *)
AnalysisFull ==
  [title |-> JStr(<<"t">>), summary |-> JStr(<<"s">>), category |-> JMissing,
   affected_signals |-> JList(<<JStr(<<" ", "a">>), JStr(<<>>)>>),
   recommended_actions |-> JList(<<JStr(<<"b">>)>>),
   risk_score |-> JInt(9), confidence |-> JNum(150)]

AnalysisSparse ==
  [title |-> JMissing, summary |-> JStr(<<" ">>), category |-> JStr(<<"c", " ">>),
   affected_signals |-> JList(<<>>), recommended_actions |-> JNull,
   risk_score |-> JStr(<<"h", "i">>), confidence |-> JStr(<<"0", ".", "9">>)]

AnalysisNegative ==
  [title |-> JStr(<<"R", "e", "l", "e", "v", "a", "n", "c", "e">>),
   summary |-> JMissing, category |-> JNull,
   affected_signals |-> JMissing, recommended_actions |-> JList(<<JStr(<<"d">>)>>),
   risk_score |-> JInt(0 - 3), confidence |-> JNum(0 - 20)]

AnalysisReplies == {AnalysisFull, AnalysisSparse, AnalysisNegative}

\* run(), lines 242-248: what run() reads from the triage reply
is_relevant(tr) == PyBool(Get(tr.is_relevant, JBool(FALSE)))

IntOr(r, default) == IF r = None THEN default ELSE r[1]

rel_score(tr) == IntOr(PyInt(Get(tr.relevance_score, JInt(0))), 0)

primary_theme(tr) == Take(PyStr(Get(tr.primary_theme, JStr(DefaultTheme))), MaxCategoryLen)

\* run(), line 250: the relevance gate
\* a variant: the gate on the flag alone
TriageRejectsOnFlag(tr) == ~is_relevant(tr)

TriageRejects(tr) == (~is_relevant(tr)) \/ (rel_score(tr) < RELEVANCE_THRESHOLD)

\* run(), lines 251-268: the "not relevant" insight
NotRelevantOutput(tr) ==
  safe_output(
    [title |-> JStr(<<"Not relevant to digital risk (score ">> \o IntDigits(rel_score(tr))
                      \o <<")">>),
     summary |-> JStr(<<"This update does not appear to change ... Theme: ">>
                        \o primary_theme(tr) \o <<". ", "Hint: ">>
                        \o Take(PyStr(Get(tr.what_changed_hint, JStr(DefaultHint))),
                                MaxHintLen)),
     category |-> JStr(primary_theme(tr)),
     affected_signals |-> JList(<<>>),
     recommended_actions |-> JList(<<>>),
     risk_score |-> JInt(NotRelevantRisk),
     confidence |-> JNum(NotRelevantConfidence)])

\* run(), lines 299-300: the theme when the analysis names no category
CategoryOrTheme(category, theme) == IF category = None THEN Some(theme) ELSE category

\* run(), lines 302-303: the relevance score appended to the title
TitleWithRelevance(title, score) ==
  IF title # <<>> /\ ~Contains(Lower(title), RelevanceWord)
  THEN Take(title \o <<" (relevance ">> \o IntDigits(score) \o <<")">>, MaxTitleLen)
  ELSE title

FinishAnalysis(out, theme, score) ==
  [out EXCEPT !.category = CategoryOrTheme(out.category, theme),
              !.title = TitleWithRelevance(out.title, score)]

\* run(), lines 297-303: the insight of an analysis reply
AnalysisOutput(tr, ar) == FinishAnalysis(safe_output(ar), primary_theme(tr), rel_score(tr))

\* the two outputs, tabulated over the replies
NotRelevantOutputs == [tr \in TriageReplies |-> NotRelevantOutput(tr)]

AnalysisOutputs ==
  [tr \in TriageReplies |-> [ar \in AnalysisReplies |-> AnalysisOutput(tr, ar)]]

(* ------------------------------ the store ------------------------------ *)
VARIABLES
  snapshots,  \* table snapshots: rows [source_id, content_hash, fetched_at]
  changes,    \* table changes: rows [source_id, prev_snapshot_id, new_snapshot_id,
              \*                      diff_json, created_at]
  insights,   \* table insights: rows [change_id, agent_name, title, summary, confidence,
              \*                       category, affected_signals, recommended_actions,
              \*                       risk_score]
  clock,      \* the wall clock, read by datetime.now()
  tieHigh,    \* how the store orders rows of equal sort key: by id, descending or not
  mode,       \* "conc": runs interleave at their store calls; "seq": one run at a time;
              \* "race": interleaved runs about one source
  proc,       \* per process: the position and the locals of the run it executes
  rejected,   \* history: ids of the Changes a triage-only insight was written for
  last,       \* history: what the step just taken did
  runLog,     \* history ("seq"): the last two completed runs [kind, pre, post]
  bootHist,   \* history ("seq"): the bootstrapper runs since the last write to
              \* snapshots or by the detector, [elig, ins], the last two
  call,       \* one invocation of _call_chat_json: position, attempts, waits
  scrape,     \* the table scrape_sources writes, its clock, the last scrape_and_store
  calc,       \* one application of a function: its arguments and its result
  embed       \* the detector's embedding of deltas: texts, changes, vector_chunks

vars ==
  <<snapshots, changes, insights, clock, tieHigh, mode, proc, rejected, last,
    runLog, bootHist, call, scrape, calc, embed>>

\* the variables of the programs that are specified apart from the store's runs
sideVars == <<call, scrape, calc, embed>>

\* the variables of the content store and of the runs over it
storeVars ==
  <<snapshots, changes, insights, clock, tieHigh, mode, proc, rejected, last,
    runLog, bootHist>>

\* ORDER BY <time> DESC: the ids of `ids`, most recent first
RECURSIVE OrderDesc(_, _, _)
RECURSIVE OrderFrom(_, _, _, _)

First(time, ids, hi) ==
  CHOOSE i \in ids : \A j \in ids \ {i} :
    \/ time[i] > time[j]
    \/ time[i] = time[j] /\ (IF hi THEN i > j ELSE i < j)

OrderDesc(time, ids, hi) ==
  IF ids = {} THEN <<>> ELSE OrderFrom(First(time, ids, hi), time, ids, hi)

OrderFrom(first, time, ids, hi) == <<first>> \o OrderDesc(time, ids \ {first}, hi)

\* snapshots .eq("source_id", s).order("fetched_at", desc=True).limit(n), as ids
LatestSnapshots(snaps, s, n, hi) ==
  Take(OrderDesc([i \in 1..Len(snaps) |-> snaps[i].fetched_at],
                 {i \in 1..Len(snaps) : snaps[i].source_id = s}, hi), n)

\* a variant: the conflict target widened by prev_snapshot_id
ChangeKeyHitsWithPrev(chs, row) ==
  {i \in 1..Len(chs) : /\ chs[i].source_id = row.source_id
                       /\ chs[i].new_snapshot_id = row.new_snapshot_id
                       /\ chs[i].prev_snapshot_id = row.prev_snapshot_id}

\* the rows holding the key of UNIQUE(source_id, new_snapshot_id)
ChangeKeyHits(chs, row) ==
  {i \in 1..Len(chs) : /\ chs[i].source_id = row.source_id
                       /\ chs[i].new_snapshot_id = row.new_snapshot_id}

\* a variant: a plain insert where the upsert is
UpsertChangeAtInsertOnly(chs, payload, hits) == Append(chs, payload)

UpsertChangeAt(chs, payload, hits) ==
  IF hits = {} THEN Append(chs, payload)
  ELSE [i \in 1..Len(chs) |-> IF i \in hits THEN payload ELSE chs[i]]

\* a variant: the row that holds the key keeps its diff_json
UpsertChangeKeepsDiff(chs, payload) ==
  IF ChangeKeyHits(chs, payload) = {} THEN Append(chs, payload)
  ELSE [i \in 1..Len(chs) |->
          IF i \in ChangeKeyHits(chs, payload)
          THEN [payload EXCEPT !.diff_json = chs[i].diff_json] ELSE chs[i]]

\* changes.upsert(payload, on_conflict="source_id,new_snapshot_id")
UpsertChange(chs, payload) == UpsertChangeAt(chs, payload, ChangeKeyHits(chs, payload))

\* changes.insert(rows): one statement, refused as a whole on a duplicate key
InsertConflict(chs, rows) ==
  \/ \E k \in 1..Len(rows) : ChangeKeyHits(chs, rows[k]) # {}
  \/ \E k, m \in 1..Len(rows) : k # m /\ ChangeKeyHits(<<rows[k]>>, rows[m]) # {}

InsertChanges(chs, rows) == IF InsertConflict(chs, rows) THEN chs ELSE chs \o rows

\* a variant: the Change written whatever the two hashes
DetectPairAlways(chs, snaps, s, now, latest, previous) ==
  UpsertChange(chs,
    [source_id |-> s,
     prev_snapshot_id |-> previous,
     new_snapshot_id |-> latest,
     diff_json |-> [type |-> "hashes",
                    prev_hash |-> snaps[previous].content_hash,
                    new_hash |-> snaps[latest].content_hash],
     created_at |-> now])

\* detect_changes.main, lines 93-110: the two snapshots compared
DetectPair(chs, snaps, s, now, latest, previous) ==
  IF snaps[latest].content_hash = snaps[previous].content_hash THEN chs
  ELSE UpsertChange(chs,
         [source_id |-> s,
          prev_snapshot_id |-> previous,
          new_snapshot_id |-> latest,
          diff_json |-> [type |-> "hashes",
                         prev_hash |-> snaps[previous].content_hash,
                         new_hash |-> snaps[latest].content_hash],
          created_at |-> now])

DetectLatest(chs, snaps, s, now, snaps2) ==
  IF Len(snaps2) < 2 THEN chs ELSE DetectPair(chs, snaps, s, now, snaps2[1], snaps2[2])

\* detect_changes.main, lines 80-110: one source of the loop
DetectSource(chs, snaps, s, now, hi) ==
  DetectLatest(chs, snaps, s, now, LatestSnapshots(snaps, s, 2, hi))

\* get_uninsighted_changes, lines 141-147: the most recent Changes, as ids
RecentChanges(chs, limit, hi) ==
  Take(OrderDesc([i \in 1..Len(chs) |-> chs[i].created_at], 1..Len(chs), hi),
       Max2(limit * WindowFactor, limit))

\* get_uninsighted_changes, lines 157-167: the fetched ids that have an Insight
ExistingInsights(ins, window) ==
  {ins[k].change_id[1] : k \in {j \in 1..Len(ins) : ins[j].change_id # None}}
    \cap {window[k] : k \in 1..Len(window)}

\* get_uninsighted_changes, lines 169-196: the first `limit` ids without one
\* a variant: the window returned without the anti-join
AntiJoinUnfiltered(window, existing, limit) == Take(window, limit)

AntiJoin(window, existing, limit) ==
  LET Lacking(cid) == cid \notin existing
  IN Take(SelectSeq(window, Lacking), limit)

\* ChangeRow, the url left out
ChangeRows(chs, out) ==
  [k \in 1..Len(out) |->
     [id |-> out[k],
      source_id |-> chs[out[k]].source_id,
      old_snapshot_id |-> chs[out[k]].prev_snapshot_id,
      new_snapshot_id |-> chs[out[k]].new_snapshot_id]]

UninsightedIn(chs, ins, limit, window) ==
  ChangeRows(chs, AntiJoin(window, ExistingInsights(ins, window), limit))

\* get_uninsighted_changes(limit)
get_uninsighted_changes(chs, ins, limit, hi) ==
  UninsightedIn(chs, ins, limit, RecentChanges(chs, limit, hi))

\* the sources create_baseline_changes finds without any Change
HasNoChange(chs, s) == \A i \in 1..Len(chs) : chs[i].source_id # s

\* a variant: the legacy baseline, its prev_snapshot_id null
BaselineRowNullPrev(sid, snap_id, now) ==
  [source_id |-> sid,
   prev_snapshot_id |-> 0,
   new_snapshot_id |-> snap_id,
   diff_json |-> [type |-> "baseline", prev_hash |-> 0, new_hash |-> 0],
   created_at |-> now]

\* create_baseline_changes, lines 246-254: the baseline Change of a source
BaselineRow(sid, snap_id, now) ==
  [source_id |-> sid,
   prev_snapshot_id |-> snap_id,
   new_snapshot_id |-> snap_id,
   diff_json |-> [type |-> "baseline", prev_hash |-> 0, new_hash |-> 0],
   created_at |-> now]

RECURSIVE BaselineLoop(_, _, _, _, _, _, _)
RECURSIVE BaselineSource(_, _, _, _, _, _, _, _)
RECURSIVE BaselineAppended(_, _, _, _, _, _, _)

\* create_baseline_changes, lines 228-257: the loop over the sources, in id order
BaselineLoop(sid, to_insert, chs, snaps, limit, now, hi) ==
  IF sid > NumSources THEN to_insert
  ELSE BaselineSource(LatestSnapshots(snaps, sid, 1, hi), sid, to_insert, chs, snaps,
                      limit, now, hi)

\* a variant: the loop left, not continued, at a source that is skipped
BaselineSourceBreaks(row, sid, to_insert, chs, snaps, limit, now, hi) ==
  IF ~HasNoChange(chs, sid) \/ row = <<>>
  THEN to_insert
  ELSE BaselineAppended(sid, Append(to_insert, BaselineRow(sid, row[1], now)), chs, snaps,
                        limit, now, hi)

BaselineSource(row, sid, to_insert, chs, snaps, limit, now, hi) ==
  IF ~HasNoChange(chs, sid) \/ row = <<>>
  THEN BaselineLoop(sid + 1, to_insert, chs, snaps, limit, now, hi)
  ELSE BaselineAppended(sid, Append(to_insert, BaselineRow(sid, row[1], now)), chs, snaps,
                        limit, now, hi)

BaselineAppended(sid, to_insert, chs, snaps, limit, now, hi) ==
  IF Len(to_insert) >= limit THEN to_insert
  ELSE BaselineLoop(sid + 1, to_insert, chs, snaps, limit, now, hi)

\* create_baseline_changes, lines 204-257: the rows to insert
BaselineRows(chs, snaps, limit, now, hi) == BaselineLoop(1, <<>>, chs, snaps, limit, now, hi)

\* the rows holding the key of UNIQUE(change_id)
InsightKeyHits(ins, change_id) == {i \in 1..Len(ins) : ins[i].change_id = Some(change_id)}

\* insert_insight, lines 279-297: the columns of the payload; None is a column left out
InsightPayload(change_id, agent_name, out) ==
  [change_id |-> Some(change_id),
   agent_name |-> Some(agent_name),
   title |-> Some(out.title),
   summary |-> Some(out.summary),
   confidence |-> Some(out.confidence),
   category |-> out.category,
   affected_signals |-> out.affected_signals,
   recommended_actions |-> out.recommended_actions,
   risk_score |-> out.risk_score]

InsightColumns ==
  {"change_id", "agent_name", "title", "summary", "confidence", "category",
   "affected_signals", "recommended_actions", "risk_score"}

\* a new row: a column the payload leaves out is NULL
NewInsightRow(payload) == payload

\* ON CONFLICT DO UPDATE: only the columns of the payload are set
MergeInsightRow(row, payload) ==
  [c \in InsightColumns |-> IF payload[c] = None THEN row[c] ELSE payload[c]]

\* a variant: a plain insert where the upsert is
UpsertInsightAtInsertOnly(ins, payload, hits) == Append(ins, NewInsightRow(payload))

UpsertInsightAt(ins, payload, hits) ==
  IF hits = {} THEN Append(ins, NewInsightRow(payload))
  ELSE [i \in 1..Len(ins) |-> IF i \in hits THEN MergeInsightRow(ins[i], payload)
                               ELSE ins[i]]

\* insights.upsert(payload, on_conflict="change_id")
UpsertInsight(ins, payload) ==
  UpsertInsightAt(ins, payload, InsightKeyHits(ins, payload.change_id[1]))

\* insert_insight(change_id, agent_name, ...)
insert_insight(ins, change_id, agent_name, out) ==
  UpsertInsight(ins, InsightPayload(change_id, agent_name, out))

(* ------------------------------ the runs ------------------------------- *)
\* what the step just taken did, when it was a detector upsert or a triage
NoLast == [op |-> "none", change |-> 0, triage |-> "none", reply |-> None, analysis |-> 0,
           areply |-> None, upserts |-> 0, hit |-> FALSE, out |-> None, row |-> None,
           known |-> {}, raised |-> FALSE, had |-> {}, left |-> 0, requests |-> 0]

Idle == [pc |-> "idle", kind |-> "none", now |-> 0, todo |-> <<>>, cands |-> <<>>,
         plan |-> <<>>, known |-> {}, elig |-> {}, pre |-> 0]

\* interleaved runs are explored over a shorter history and fewer replies; the runs
\* that race on one source are explored over the longer history
Horizon ==
  IF mode = "conc" THEN MaxClockInterleaved
  ELSE IF mode = "again" THEN MaxClock + 1 ELSE MaxClock

TriageInputs == IF mode = "seq" THEN TriageReplies ELSE {TriagePasses, TriageIrrelevant}

AnalysisInputs == IF mode = "seq" THEN AnalysisReplies ELSE {AnalysisFull, AnalysisSparse}

AllIdle == \A q \in Procs : proc[q].pc = "idle"

\* a run's step may be taken: always when runs interleave, else when no other run is open
Free(p) == mode # "seq" \/ \A q \in Procs \ {p} : proc[q].pc = "idle"

\* a run may start in process p: the processes are interchangeable, so a run that
\* starts while no other is open is given to the first one
MayStart(p) ==
  /\ Free(p) /\ proc[p].pc = "idle"
  /\ p = "p1" \/ proc["p1"].pc # "idle"
  /\ clock < Horizon

\* content hashes are opaque: the first content ever stored is named 1
FirstHashIsOne(snaps, hs) == snaps = <<>> => hs[1] = 1

LastTwo(s) == IF Len(s) <= 2 THEN s ELSE SubSeq(s, Len(s) - 1, Len(s))

LogRun(kind, pre, post) ==
  IF mode = "seq" THEN LastTwo(Append(runLog, [kind |-> kind, pre |-> pre, post |-> post]))
  ELSE runLog

LogBoot(elig, ins) ==
  IF mode = "seq" THEN LastTwo(Append(bootHist, [elig |-> elig, ins |-> ins])) ELSE bootHist

\* the number of Changes when a run started, kept for the log of the runs
RunPre == IF mode = "seq" THEN Len(changes) ELSE 0

\* the sources the bootstrapper is for: at least one Snapshot, no Change
Eligible(chs, snaps) ==
  {s \in Sources : /\ \A i \in 1..Len(chs) : chs[i].source_id # s
                   /\ \E i \in 1..Len(snaps) : snaps[i].source_id = s}

SectionLists == UNION {[1..n -> Hashes] : n \in 1..MaxSections}

\* the ingest runs explored: in the race on one source, one section of the first source
IngestSources == IF mode = "race" THEN {1} ELSE Sources

IngestLists == IF mode = "race" THEN [1..1 -> Hashes] ELSE SectionLists

\* where every ingest is to be followed by a detector run, the last tick is kept for one
IngestHorizon == IF mode = "link" THEN Horizon - 1 ELSE Horizon

\* ios_release_notes_121161.main: one snapshot per section, all fetched_at = now
IngestRun(s, hs) ==
  /\ mode # "seq" \/ AllIdle
  /\ clock < IngestHorizon
  /\ Len(snapshots) + Len(hs) <= MaxSnaps
  /\ FirstHashIsOne(snapshots, hs)
  /\ snapshots' = snapshots \o
       [k \in 1..Len(hs) |->
          [source_id |-> s, content_hash |-> hs[k], fetched_at |-> clock + 1]]
  /\ clock' = clock + 1
  /\ runLog' = LogRun("ingest", Len(changes), Len(changes))
  /\ bootHist' = <<>>
  /\ last' = NoLast
  /\ UNCHANGED <<sideVars, changes, insights, tieHigh, mode, proc, rejected>>

\* detect_changes.main, lines 68-77
DetectStart(p) ==
  /\ MayStart(p)
  /\ clock' = clock + 1
  /\ proc' = [proc EXCEPT ![p] =
       [Idle EXCEPT !.pc = "detect", !.kind = "detect", !.now = clock + 1,
                    !.todo = [i \in 1..NumSources |-> i], !.pre = RunPre]]
  /\ bootHist' = <<>>
  /\ last' = NoLast
  /\ UNCHANGED <<sideVars, snapshots, changes, insights, tieHigh, mode, rejected,
                 runLog>>

\* the row an upsert rewrote, as it was before
Replaced(chs, chs2) ==
  IF Len(chs2) = Len(chs) /\ chs2 # chs
  THEN Some(chs[CHOOSE k \in 1..Len(chs) : chs2[k] # chs[k]])
  ELSE None

\* the detector after one source: the loop goes on, or the run is over
Detected(p, chs2) ==
  /\ changes' = chs2
  /\ last' = [NoLast EXCEPT !.op = "detect",
                            !.hit = Len(chs2) = Len(changes) /\ chs2 # changes,
                            !.upserts = IF chs2 # changes THEN 1 ELSE 0,
                            !.row = Replaced(changes, chs2)]
  /\ IF Len(proc[p].todo) > 1
     THEN /\ proc' = [proc EXCEPT ![p].todo = Tail(@)]
          /\ runLog' = runLog
     ELSE /\ proc' = [proc EXCEPT ![p] = Idle]
          /\ runLog' = LogRun("detect", proc[p].pre, Len(chs2))

\* detect_changes.main, lines 79-130: the next source
DetectStep(p) ==
  /\ Free(p) /\ proc[p].pc = "detect"
  /\ Detected(p, DetectSource(changes, snapshots, Head(proc[p].todo), proc[p].now, tieHigh))
  /\ UNCHANGED <<sideVars, snapshots, insights, clock, tieHigh, mode, rejected,
                 bootHist>>

MonstralFetchLimit == 2 * FetchLimit

\* the batch of a run over a backlog of Changes
BacklogLimit == 1

\* get_uninsighted_changes(limit=25) of run: the runs over a backlog are explored
\* with the smaller batch
GroqLimit == IF mode \in {"backlog", "again"} THEN BacklogLimit ELSE FetchLimit

\* run, line 209: the bootstrapper only when the fetch returned nothing
GroqFetched(p, changes_) ==
  proc' = [proc EXCEPT ![p] =
    [Idle EXCEPT !.pc = IF changes_ = <<>> THEN "boot" ELSE "loop",
                 !.kind = "groq", !.cands = changes_, !.known = rejected,
                 !.pre = RunPre]]

\* generate_insights_groq.run, lines 207-209: the first fetch
GroqStart(p) ==
  /\ MayStart(p)
  /\ GroqFetched(p, get_uninsighted_changes(changes, insights, GroqLimit, tieHigh))
  /\ last' = NoLast
  /\ UNCHANGED <<sideVars, snapshots, changes, insights, clock, tieHigh, mode,
                 rejected, runLog, bootHist>>

\* generate_insights_monstral.run_insights_pipeline, line 150
MonstralStart(p) ==
  /\ MayStart(p)
  /\ proc' = [proc EXCEPT ![p] =
       [Idle EXCEPT !.pc = "boot", !.kind = "monstral", !.pre = RunPre]]
  /\ last' = NoLast
  /\ UNCHANGED <<sideVars, snapshots, changes, insights, clock, tieHigh, mode,
                 rejected, runLog, bootHist>>

\* create_baseline_changes, lines 259-260: nothing to insert, return 0
BootPlanned(p, to_insert, elig) ==
  /\ proc' = [proc EXCEPT ![p].plan = to_insert, ![p].elig = elig,
                          ![p].pc = IF to_insert = <<>> THEN "fetch" ELSE "insert"]
  /\ bootHist' = IF to_insert = <<>> THEN LogBoot(elig, {}) ELSE bootHist

\* create_baseline_changes, lines 204-260: the reads, and to_insert
BootPlan(p) ==
  /\ Free(p) /\ proc[p].pc = "boot"
  /\ clock' = clock + 1
  /\ BootPlanned(p, BaselineRows(changes, snapshots, BaselineLimit, clock + 1, tieHigh),
                 IF mode = "seq" THEN Eligible(changes, snapshots) ELSE {})
  /\ last' = NoLast
  /\ UNCHANGED <<sideVars, snapshots, changes, insights, tieHigh, mode, rejected,
                 runLog>>

\* the sources that had a Change when the insert gave them a baseline Change
BaselinedWithChange(chs, rows) ==
  IF InsertConflict(chs, rows) THEN {}
  ELSE {rows[k].source_id : k \in {j \in 1..Len(rows) : ~HasNoChange(chs, rows[j].source_id)}}

\* create_baseline_changes, lines 262-263: the insert; its error ends the run
BootInsert(p) ==
  /\ Free(p) /\ proc[p].pc = "insert"
  /\ changes' = InsertChanges(changes, proc[p].plan)
  /\ IF InsertConflict(changes, proc[p].plan)
     THEN /\ proc' = [proc EXCEPT ![p] = Idle]
          /\ runLog' = LogRun("aborted", proc[p].pre, Len(changes))
          /\ bootHist' = bootHist
     ELSE /\ proc' = [proc EXCEPT ![p].pc = "fetch", ![p].plan = <<>>]
          /\ runLog' = runLog
          /\ bootHist' = LogBoot(proc[p].elig,
                           {proc[p].plan[k].source_id : k \in 1..Len(proc[p].plan)})
  /\ last' = [NoLast EXCEPT !.op = "boot",
                            !.raised = InsertConflict(changes, proc[p].plan),
                            !.had = BaselinedWithChange(changes, proc[p].plan)]
  /\ UNCHANGED <<sideVars, snapshots, insights, clock, tieHigh, mode, rejected>>

\* run, lines 212-216, and run_insights_pipeline, lines 152-158: the fetch after the
\* bootstrapper.  run_insights_pipeline calls ch.get on the first ChangeRow, a dataclass
\* without that method: the AttributeError ends the run.
Fetched(p, changes_) ==
  IF proc[p].kind = "groq" /\ changes_ # <<>>
  THEN /\ proc' = [proc EXCEPT ![p].pc = "loop", ![p].cands = changes_,
                               ![p].known = rejected, ![p].elig = {}]
       /\ runLog' = runLog
  ELSE /\ proc' = [proc EXCEPT ![p] = Idle]
       /\ runLog' = LogRun(IF changes_ = <<>> THEN proc[p].kind ELSE "aborted",
                           proc[p].pre, Len(changes))

\* run_insights_pipeline, lines 157-158: the exception leaves the loop at the first
\* Change, the others of the batch left undone
FetchRecord(p, changes_) ==
  IF proc[p].kind = "monstral" /\ changes_ # <<>>
  THEN [NoLast EXCEPT !.op = "monstral", !.change = changes_[1].id,
                      !.left = Len(changes_) - 1]
  ELSE NoLast

FetchedBy(p, changes_) ==
  /\ Fetched(p, changes_)
  /\ last' = FetchRecord(p, changes_)

Fetch(p) ==
  /\ Free(p) /\ proc[p].pc = "fetch"
  /\ FetchedBy(p, get_uninsighted_changes(changes, insights,
                    IF proc[p].kind = "groq" THEN GroqLimit ELSE MonstralFetchLimit,
                    tieHigh))
  /\ UNCHANGED <<sideVars, snapshots, changes, insights, clock, tieHigh, mode,
                 rejected, bootHist>>

RowOf(ins, change_id) == ins[CHOOSE i \in InsightKeyHits(ins, change_id) : TRUE]

\* _call_llm, lines 190-198: the requests one call makes before it returns or raises
CallLlmRequests == 1

\* run, lines 228-323: the loop goes on to the next Change, or the run is over (325-326)
LoopNext(p) ==
  IF Len(proc[p].cands) > 1
  THEN /\ proc' = [proc EXCEPT ![p].cands = Tail(@)]
       /\ runLog' = runLog
  ELSE /\ proc' = [proc EXCEPT ![p] = Idle]
       /\ runLog' = LogRun("groq", proc[p].pre, Len(changes))

\* run, lines 232-240 and 321-323: the triage call raises (transport, or no JSON)
\* a variant: the except clause stores the default output as the Insight of the Change
TriageFailedWrites(p) ==
  /\ Free(p) /\ proc[p].pc = "loop"
  /\ LoopNext(p)
  /\ insights' = insert_insight(insights, Head(proc[p].cands).id, AGENT_NAME,
                                NotRelevantOutputs[TriageIrrelevant])
  /\ last' = [NoLast EXCEPT !.op = "triage", !.change = Head(proc[p].cands).id,
                            !.triage = "failed", !.known = proc[p].known,
                            !.left = Len(proc[p].cands) - 1,
                            !.requests = CallLlmRequests]
  /\ UNCHANGED <<snapshots, changes, clock, tieHigh, mode, rejected, bootHist>>

TriageFailed(p) ==
  /\ Free(p) /\ proc[p].pc = "loop"
  /\ LoopNext(p)
  /\ last' = [NoLast EXCEPT !.op = "triage", !.change = Head(proc[p].cands).id,
                            !.triage = "failed", !.known = proc[p].known,
                            !.left = Len(proc[p].cands) - 1,
                            !.requests = CallLlmRequests]
  /\ UNCHANGED <<snapshots, changes, insights, clock, tieHigh, mode, rejected,
                 bootHist>>

GroqTriageFails(p) == TriageFailed(p) /\ UNCHANGED sideVars

\* the store and the record of the step after insert_insight returned
Persisted(p, change_id, tr, triage, areply, out, ins2) ==
  /\ insights' = ins2
  /\ LoopNext(p)
  /\ last' = [op |-> "triage", change |-> change_id, triage |-> triage,
              reply |-> Some(tr), analysis |-> Len(areply), areply |-> areply,
              upserts |-> 1, hit |-> InsightKeyHits(insights, change_id) # {},
              out |-> Some(out), row |-> Some(RowOf(ins2, change_id)),
              known |-> proc[p].known, raised |-> FALSE, had |-> {},
              left |-> Len(proc[p].cands) - 1, requests |-> 0]

\* run, lines 270-280 and 305-315: insert_insight of the validated output
Persist(p, change_id, tr, triage, areply, out) ==
  Persisted(p, change_id, tr, triage, areply, out,
            insert_insight(insights, change_id, AGENT_NAME, out))

\* run, lines 232-285: triage, the gate closed, the triage-only insight
GroqSkip(p, tr) ==
  /\ Free(p) /\ proc[p].pc = "loop"
  /\ TriageRejects(tr)
  /\ Persist(p, Head(proc[p].cands).id, tr, "rejected", None, NotRelevantOutputs[tr])
  /\ rejected' = rejected \cup {Head(proc[p].cands).id}
  /\ UNCHANGED <<sideVars, snapshots, changes, clock, tieHigh, mode, bootHist>>

\* run, lines 232-319: triage, the gate open, analysis, the insight
GroqAnalyze(p, tr, ar) ==
  /\ Free(p) /\ proc[p].pc = "loop"
  /\ ~TriageRejects(tr)
  /\ Persist(p, Head(proc[p].cands).id, tr, "passed", Some(ar), AnalysisOutputs[tr][ar])
  /\ UNCHANGED <<sideVars, snapshots, changes, clock, tieHigh, mode, rejected,
                 bootHist>>

\* run, lines 287-295 and 321-323: the analysis call raises
GroqAnalysisFails(p, tr) ==
  /\ Free(p) /\ proc[p].pc = "loop"
  /\ ~TriageRejects(tr)
  /\ LoopNext(p)
  /\ last' = [NoLast EXCEPT !.op = "triage", !.change = Head(proc[p].cands).id,
                            !.triage = "passed", !.reply = Some(tr), !.analysis = 1,
                            !.known = proc[p].known,
                            !.left = Len(proc[p].cands) - 1,
                            !.requests = CallLlmRequests]
  /\ UNCHANGED <<sideVars, snapshots, changes, insights, clock, tieHigh, mode,
                 rejected, bootHist>>

(* --------------------- _call_chat_json, the retry loop ------------------- *)
\* LLM_MAX_RETRIES, its default
MAX_RETRIES == 4

\* LLM_RETRY_BASE_S, its default 1.25 s, in hundredths of a second
RETRY_BASE_S == 125

\* what one request to the endpoint gives: text that parses as JSON, text that does
\* not (_safe_json_loads returns None), or an exception of the client
Outcomes == {"json", "nojson", "error"}

\* the values the environment gives MAX_RETRIES
RetryCounts == 0..MAX_RETRIES

NoCall == [pc |-> "idle", max_retries |-> 0, attempt |-> 0, requests |-> 0,
           slept |-> <<>>, outcomes |-> <<>>]

RECURSIVE Pow2(_)
Pow2(k) == IF k = 0 THEN 1 ELSE 2 * Pow2(k - 1)

\* a variant: the wait grows linearly
SleepBackoffLinear(attempt) == RETRY_BASE_S * (attempt + 1)

\* _sleep_backoff(attempt): the time slept
_sleep_backoff(attempt) == RETRY_BASE_S * Pow2(attempt)

\* lines 87-88: another attempt follows this one
AnotherAttempt(attempt, max_retries) == attempt < max_retries - 1

\* lines 61-90: one pass of the loop body, the request of which gave outcome o
AttemptResult(c, o) ==
  IF o = "json"
  THEN [c EXCEPT !.pc = "returned", !.requests = @ + 1, !.outcomes = Append(@, o)]
  ELSE IF AnotherAttempt(c.attempt, c.max_retries)
  THEN [c EXCEPT !.attempt = @ + 1, !.requests = @ + 1, !.outcomes = Append(@, o),
                 !.slept = Append(@, _sleep_backoff(c.attempt))]
  ELSE [c EXCEPT !.pc = "raised", !.requests = @ + 1, !.outcomes = Append(@, o)]

(* ------------------------ scrape_sources, the ingestor ------------------- *)
MIN_CLEAN_TEXT_LEN == 1200

\* line 191: a status from here on is an error
HttpErrorFrom == 400

\* the statuses a server answers with: found, not found
HttpStatuses == {200, 404}

MaxScrapes == 3      \* calls of scrape_and_store

Urls == {"u1", "u2"}

\* the lengths of the cleaned text: empty, just too short, just long enough
CleanLens == {0, MIN_CLEAN_TEXT_LEN - 1, MIN_CLEAN_TEXT_LEN}

\* a response: its status and its cleaned text, a text being known by its length and
\* which of the texts of that length it is; the empty text is one text
Texts == {[len |-> l, v |-> v] : l \in CleanLens \ {0}, v \in 1..NumHashes}
           \cup {[len |-> 0, v |-> 0]}

Pages == [status : HttpStatuses, text : Texts]

\* requests.get: a response, or a RequestException (None)
Replies == {None} \cup {Some(pg) : pg \in Pages}

\* _sha256: the digest of a text, distinct texts having distinct digests
_sha256(text) == <<"sha256", text.len, text.v>>

EmptyText == [len |-> 0, v |-> 0]

\* a variant: only the status makes a record one to skip
SkipReasonStatusOnly(status_code, clean_len, min_clean_len) ==
  IF status_code >= HttpErrorFrom THEN Some("http_error") ELSE None

\* fetch_and_clean, lines 188-196
SkipReason(status_code, clean_len, min_clean_len) ==
  IF status_code >= HttpErrorFrom THEN Some("http_error")
  ELSE IF clean_len < min_clean_len THEN Some("clean_text_too_short")
  ELSE None

\* fetch_and_clean, lines 204-217
ScrapeResult(url, status_code, now, text, skip_reason) ==
  [url |-> url, status_code |-> status_code, fetched_at_utc |-> now,
   clean_text |-> text, clean_text_len |-> text.len, clean_text_sha256 |-> _sha256(text),
   should_skip |-> skip_reason # None, skip_reason |-> skip_reason]

\* fetch_and_clean(url)
fetch_and_clean(url, reply, now) ==
  IF reply = None
  THEN ScrapeResult(url, 0, now, EmptyText, Some("request_error"))
  ELSE ScrapeResult(url, reply[1].status, now, reply[1].text,
                    SkipReason(reply[1].status, reply[1].text.len, MIN_CLEAN_TEXT_LEN))

\* the rows holding the key of UPSERT_ON_CONFLICT, (url, clean_text_sha256)
ScrapeKeyHits(rows, record) ==
  {i \in 1..Len(rows) : /\ rows[i].url = record.url
                        /\ rows[i].clean_text_sha256 = record.clean_text_sha256}

\* upsert(record, on_conflict=UPSERT_ON_CONFLICT): the record has every column
UpsertScrapeAt(rows, record, hits) ==
  IF hits = {} THEN Append(rows, record)
  ELSE [i \in 1..Len(rows) |-> IF i \in hits THEN record ELSE rows[i]]

\* insert_to_supabase(record): the table after it, the store refusing the write or not
insert_to_supabase(rows, record, refused) ==
  IF refused THEN rows ELSE UpsertScrapeAt(rows, record, ScrapeKeyHits(rows, record))

NoScrape == [rows |-> <<>>, now |-> 0, rec |-> None, out |-> None]

(* ----------------------- _delta_added_text, the delta ------------------- *)
MaxLines == 3        \* lines of a text
DeltaMaxChars == 5   \* max_chars = 12000, scaled down

\* the lines texts are made of: two letters, an indented letter, the empty line
DeltaLines == {<<"A">>, <<"B">>, <<" ", "C">>, <<>>}

TruncationMarker == "\n\n[...delta truncated...]\n\n"

\* "\n".join(lines)
RECURSIVE JoinLines(_)
JoinLines(lines) ==
  IF lines = <<>> THEN <<>>
  ELSE IF Len(lines) = 1 THEN lines[1]
  ELSE lines[1] \o <<"\n">> \o JoinLines(Tail(lines))

\* str.splitlines(): the text cut at its line ends, no empty line after the last one
RECURSIVE SplitFrom(_, _, _)
SplitFrom(s, cur, out) ==
  IF s = <<>> THEN (IF cur = <<>> THEN out ELSE Append(out, cur))
  ELSE IF Head(s) = "\n" THEN SplitFrom(Tail(s), <<>>, Append(out, cur))
  ELSE SplitFrom(Tail(s), Append(cur, Head(s)), out)

splitlines(s) == SplitFrom(s, <<>>, <<>>)

\* the texts compared: up to MaxLines lines joined by line ends
LineLists == UNION {[1..n -> DeltaLines] : n \in 0..MaxLines}

DeltaTexts == {JoinLines(ls) : ls \in LineLists}

\* a variant: no two lines are found equal
MatchLenZero(a, b, i, j, ahi, bhi) == 0

\* difflib.SequenceMatcher: the length of the run of equal lines from a[i] and b[j]
RECURSIVE MatchLen(_, _, _, _, _, _)
MatchLen(a, b, i, j, ahi, bhi) ==
  IF i > ahi \/ j > bhi THEN 0
  ELSE IF a[i] # b[j] THEN 0
  ELSE 1 + MatchLen(a, b, i + 1, j + 1, ahi, bhi)

\* block p is to be preferred to block q: longer, or as long and earlier in a, or as long,
\* as early in a and earlier in b
Preferred(p, q) ==
  \/ p.k > q.k
  \/ p.k = q.k /\ p.i < q.i
  \/ p.k = q.k /\ p.i = q.i /\ p.j <= q.j

MatchBlocks(a, b, alo, ahi, blo, bhi) ==
  {[i |-> i, j |-> j, k |-> MatchLen(a, b, i, j, ahi, bhi)] : i \in alo..ahi, j \in blo..bhi}

\* SequenceMatcher.find_longest_match(alo, ahi, blo, bhi), the ranges not empty
BestOf(blocks) == CHOOSE p \in blocks : \A q \in blocks : Preferred(p, q)

find_longest_match(a, b, alo, ahi, blo, bhi) == BestOf(MatchBlocks(a, b, alo, ahi, blo, bhi))

RECURSIVE AddedLines(_, _, _, _, _, _)
RECURSIVE AddedAround(_, _, _, _, _, _, _)

\* a variant: every line of the new text, changed or not
AllLines(a, b, alo, ahi, blo, bhi) == SubSeq(b, blo, bhi)

\* difflib.ndiff(old_lines, new_lines), lines 30-32: the lines of b[blo..bhi] given
\* with "+ ", which are those outside every matching block
AddedLines(a, b, alo, ahi, blo, bhi) ==
  IF blo > bhi THEN <<>>
  ELSE IF alo > ahi THEN SubSeq(b, blo, bhi)
  ELSE AddedAround(a, b, alo, ahi, blo, bhi, find_longest_match(a, b, alo, ahi, blo, bhi))

\* SequenceMatcher.get_matching_blocks: left and right of the longest block
AddedAround(a, b, alo, ahi, blo, bhi, m) ==
  IF m.k = 0 THEN SubSeq(b, blo, bhi)
  ELSE AddedLines(a, b, alo, m.i - 1, blo, m.j - 1)
         \o AddedLines(a, b, m.i + m.k, ahi, m.j + m.k, bhi)

\* lines 26-32: out_lines
out_lines(old_text, new_text) ==
  AddedLines(splitlines(old_text), splitlines(new_text),
             1, Len(splitlines(old_text)), 1, Len(splitlines(new_text)))

\* s[-n:], which is all of s when n = 0
LastChars(s, n) == IF n = 0 THEN s ELSE SubSeq(s, Max2(Len(s) - n, 0) + 1, Len(s))

\* a variant: the tail as long as the head
TruncateDeltaEvenly(delta, max_chars) ==
  IF Len(delta) > max_chars
  THEN Take(delta, (max_chars * 8) \div 10) \o <<TruncationMarker>>
         \o LastChars(delta, (max_chars * 8) \div 10)
  ELSE delta

\* lines 38-41; int(max_chars * 0.8) and int(max_chars * 0.2) round down
TruncateDelta(delta, max_chars) ==
  IF Len(delta) > max_chars
  THEN Take(delta, (max_chars * 8) \div 10) \o <<TruncationMarker>>
         \o LastChars(delta, (max_chars * 2) \div 10)
  ELSE delta

\* line 34: delta, before it is cut
JoinedDelta(old_text, new_text) == Strip(JoinLines(out_lines(old_text, new_text)))

\* _delta_added_text(old_text, new_text, max_chars)
\* a variant: the whole new text taken for the delta
DeltaWholeNewText(old_text, new_text, max_chars) == Strip(new_text)

_delta_added_text(old_text, new_text, max_chars) ==
  IF JoinedDelta(old_text, new_text) = <<>> THEN <<>>
  ELSE TruncateDelta(JoinedDelta(old_text, new_text), max_chars)

(* ------------------------- chunk_text, the chunks ------------------------ *)
MaxTextLen == 4      \* characters of a text to chunk
MaxWindow == 3       \* chunk_size_chars and overlap_chars, from 0 to this
MaxChunks == 4       \* chunks after which a loop that does not end is left alone

ChunkChars == {"a", "b", " "}

ChunkTexts == UNION {[1..n -> ChunkChars] : n \in 0..MaxTextLen}

\* t[start:end], start counted from 0
Slice(t, start, end) == SubSeq(t, start + 1, end)

\* a variant: the next window starts where this one ends
NextStartAtEnd(end, overlap_chars) == end

\* chunk_text, line 42
NextStart(end, overlap_chars) == Max2(0, end - overlap_chars)

\* chunk_text, lines 24-33: the state before the loop, or the result returned at once
ChunkEntered(text, chunk_size_chars, overlap_chars) ==
  [fn |-> "chunk", text |-> text, chunk_size_chars |-> chunk_size_chars,
   overlap_chars |-> overlap_chars, t |-> Strip(text), start |-> 0, spans |-> <<>>,
   chunks |-> IF Strip(text) # <<>> /\ chunk_size_chars <= 0 THEN <<Strip(text)>> ELSE <<>>,
   pc |-> IF Strip(text) = <<>> \/ chunk_size_chars <= 0 THEN "returned" ELSE "loop"]

\* chunk_text, lines 36-42: one pass of the loop, the window ending at `end`
ChunkPass(c, end) ==
  [c EXCEPT !.chunks = IF Strip(Slice(c.t, c.start, end)) # <<>>
                       THEN Append(@, Strip(Slice(c.t, c.start, end))) ELSE @,
            !.spans = Append(@, <<c.start, end>>),
            !.start = IF end >= Len(c.t) THEN @ ELSE NextStart(end, c.overlap_chars),
            !.pc = IF end >= Len(c.t) THEN "returned" ELSE "loop"]

\* chunk_text, lines 35-44: the loop run to its end
RECURSIVE ChunkLoop(_)
ChunkLoop(c) ==
  IF c.pc = "returned" \/ c.start >= Len(c.t) THEN c.chunks
  ELSE ChunkLoop(ChunkPass(c, Min2(Len(c.t), c.start + c.chunk_size_chars)))

chunk_text(text, chunk_size_chars, overlap_chars) ==
  ChunkLoop(ChunkEntered(text, chunk_size_chars, overlap_chars))

(* ------------------- the detector, its deltas embedded ------------------- *)
NumEmbedSources == 2   \* active sources of the embedding detector
MaxEmbedSnaps == 4     \* snapshots ingested before its runs
MaxEmbedRuns == 2      \* its runs

DeltaMaxCharsDefault == 12000

\* CHUNK_SIZE_CHARS and CHUNK_OVERLAP_CHARS: the defaults, and a window of two
ChunkConfigs == {<<1600, 200>>, <<2, 1>>}

EmbedTexts == {<<"A">>, <<"A", "\n", "B">>, <<"A", "\n", "B", "\n", "C">>}

\* what can go wrong inside the try block of one source
EmbedFaults == {"none", "text", "embed", "upsert"}

\* the sha256 hex digest of a clean text
TextSha(text) == <<"sha256">> \o text

\* str(src["id"])
StrOfId(id) == <<"str", id>>

\* embed_texts, one text: the vector the model gives it
Embedding(chunk) == [vector_of |-> chunk]

\* the rows holding the key of UNIQUE(source_id, snapshot_sha, kind, chunk_index)
VectorKeyHits(vecs, row) ==
  {i \in 1..Len(vecs) : /\ vecs[i].source_id = row.source_id
                        /\ vecs[i].snapshot_sha = row.snapshot_sha
                        /\ vecs[i].kind = row.kind
                        /\ vecs[i].chunk_index = row.chunk_index}

\* a variant: a plain insert where the upsert is
UpsertVectorAtInsertOnly(vecs, row, hits) == Append(vecs, row)

UpsertVectorAt(vecs, row, hits) ==
  IF hits = {} THEN Append(vecs, row)
  ELSE [i \in 1..Len(vecs) |-> IF i \in hits THEN row ELSE vecs[i]]

\* upsert_vector_chunks(rows)
RECURSIVE upsert_vector_chunks(_, _)
upsert_vector_chunks(vecs, rows) ==
  IF rows = <<>> THEN vecs
  ELSE upsert_vector_chunks(UpsertVectorAt(vecs, Head(rows), VectorKeyHits(vecs, Head(rows))),
                            Tail(rows))

\* _embed_delta, lines 50-61: one row per chunk
DeltaRows(source_id, snapshot_sha, chunks) ==
  [i \in 1..Len(chunks) |->
     [source_id |-> source_id, snapshot_sha |-> snapshot_sha, kind |-> "delta",
      chunk_index |-> i - 1, chunk_text |-> chunks[i],
      embedding |-> Embedding(chunks[i])]]

\* _embed_delta(source_id, snapshot_sha, delta_text): the table after it
_embed_delta(vecs, source_id, snapshot_sha, delta_text, cfg) ==
  upsert_vector_chunks(vecs,
    DeltaRows(source_id, snapshot_sha, chunk_text(delta_text, cfg[1], cfg[2])))

\* get_snapshot_text_and_hash_by_id(snapshot_id)
get_snapshot_text_and_hash_by_id(snaps, snapshot_id) ==
  IF snapshot_id \in 1..Len(snaps)
  THEN <<snaps[snapshot_id].clean_text, snaps[snapshot_id].content_hash>>
  ELSE <<<<>>, <<>>>>

\* main, lines 118-126: the delta in hand
EmbedOf(vecs, s, sha, delta, cfg, fault) ==
  IF delta = <<>>
  THEN [vectors |-> vecs, caught |-> FALSE, delta |-> delta, embedded |-> FALSE]
  ELSE IF fault \in {"embed", "upsert"}
  THEN [vectors |-> vecs, caught |-> TRUE, delta |-> delta, embedded |-> FALSE]
  ELSE [vectors |-> _embed_delta(vecs, StrOfId(s), sha, delta, cfg),
        caught |-> FALSE, delta |-> delta, embedded |-> TRUE]

\* main, lines 116-129: the try block of one Change
EmbedChange(vecs, snaps, s, latest, previous, cfg, fault) ==
  IF fault = "text"
  THEN [vectors |-> vecs, caught |-> TRUE, delta |-> <<>>, embedded |-> FALSE]
  ELSE EmbedOf(vecs, s, get_snapshot_text_and_hash_by_id(snaps, latest)[2],
               _delta_added_text(get_snapshot_text_and_hash_by_id(snaps, previous)[1],
                                 get_snapshot_text_and_hash_by_id(snaps, latest)[1],
                                 DeltaMaxCharsDefault),
               cfg, fault)

\* main, lines 90-96: the source has two snapshots of different hashes
HashesDiffer(snaps, snaps2) ==
  /\ Len(snaps2) >= 2
  /\ snaps[snaps2[1]].content_hash # snaps[snaps2[2]].content_hash

\* main, lines 113-129: what follows the upsert of the Change
AfterChange(vecs, snaps, s, snaps2, flag, cfg, fault) ==
  IF ~HashesDiffer(snaps, snaps2) \/ ~flag
  THEN [vectors |-> vecs, caught |-> FALSE, delta |-> <<>>, embedded |-> FALSE]
  ELSE EmbedChange(vecs, snaps, s, snaps2[1], snaps2[2], cfg, fault)

\* no function applied, no detector run with embedding
NoCalc == [fn |-> "none"]

NoEmbed == [pc |-> "none"]

\* no source handled yet in this run
NoStep ==
  [source |-> 0, differ |-> FALSE, pair |-> <<>>, delta |-> <<>>, caught |-> FALSE,
   embedded |-> FALSE, before |-> <<>>]

InitStore ==
  /\ snapshots = <<>>
  /\ changes = <<>>
  /\ insights = <<>>
  /\ clock = 0
  /\ tieHigh \in BOOLEAN
  /\ proc = [p \in Procs |-> Idle]
  /\ rejected = {}
  /\ last = NoLast
  /\ runLog = <<>>
  /\ bootHist = <<>>
  /\ call = NoCall
  /\ scrape = NoScrape
  /\ calc = NoCalc
  /\ embed = NoEmbed

Init == InitStore /\ mode = "conc"

SeqInit == InitStore /\ mode = "seq"

RaceInit == InitStore /\ mode = "race"

Next ==
  \/ \E s \in IngestSources, hs \in IngestLists : IngestRun(s, hs)
  \/ \E p \in Procs : DetectStart(p)
  \/ \E p \in Procs : DetectStep(p)
  \/ \E p \in Procs : GroqStart(p)
  \/ \E p \in Procs : MonstralStart(p)
  \/ \E p \in Procs : BootPlan(p)
  \/ \E p \in Procs : BootInsert(p)
  \/ \E p \in Procs : Fetch(p)
  \/ \E p \in Procs : GroqTriageFails(p)
  \/ \E p \in Procs, tr \in TriageInputs : GroqSkip(p, tr)
  \/ \E p \in Procs, tr \in TriageInputs, ar \in AnalysisInputs : GroqAnalyze(p, tr, ar)
  \/ \E p \in Procs, tr \in TriageInputs : GroqAnalysisFails(p, tr)

\* runs interleave at their store calls
Spec == Init /\ [][Next]_vars

\* one run at a time
SeqSpec == SeqInit /\ [][Next]_vars

\* runs interleave at their store calls, all of them about the first source
RaceSpec == RaceInit /\ [][Next]_vars

\* _call_chat_json is entered, lines 59-60; with no attempt to make, line 92 raises
CallChatJson(n) ==
  /\ call.pc # "try"
  /\ call' = [NoCall EXCEPT !.pc = IF n = 0 THEN "raised" ELSE "try", !.max_retries = n]
  /\ UNCHANGED <<storeVars, scrape, calc, embed>>

\* _call_chat_json, lines 60-90: one attempt
Attempt(o) ==
  /\ call.pc = "try"
  /\ call' = AttemptResult(call, o)
  /\ UNCHANGED <<storeVars, scrape, calc, embed>>

RetryInit == InitStore /\ mode = "retry"

RetryNext ==
  \/ \E n \in RetryCounts : CallChatJson(n)
  \/ \E o \in Outcomes : Attempt(o)

\* one call of _call_chat_json after another
RetrySpec == RetryInit /\ [][RetryNext]_vars

\* scrape_and_store, lines 224-229: the result, the write, the status returned
Scraped(result, rows2, refused) ==
  scrape' = [rows |-> rows2, now |-> scrape.now + 1, rec |-> Some(result),
             out |-> Some([url |-> result.url, should_skip |-> result.should_skip,
                           skip_reason |-> result.skip_reason, ok |-> ~refused])]

Stored(result, refused) ==
  Scraped(result, insert_to_supabase(scrape.rows, result, refused), refused)

\* scrape_and_store(url)
ScrapeAndStore(url, reply, refused) ==
  /\ scrape.now < MaxScrapes
  /\ Stored(fetch_and_clean(url, reply, scrape.now + 1), refused)
  /\ UNCHANGED <<storeVars, call, calc, embed>>

ScrapeInit == InitStore /\ mode = "scrape"

ScrapeNext ==
  \E url \in Urls, reply \in Replies, refused \in BOOLEAN : ScrapeAndStore(url, reply, refused)

\* one call of scrape_and_store after another
ScrapeSpec == ScrapeInit /\ [][ScrapeNext]_vars

\* one call _delta_added_text(old_text, new_text), as main makes it at line 118
DeltaAddedText(old_text, new_text) ==
  /\ calc = NoCalc
  /\ calc' = [fn |-> "delta", old_text |-> old_text, new_text |-> new_text,
              added |-> out_lines(old_text, new_text),
              delta |-> JoinedDelta(old_text, new_text),
              out |-> _delta_added_text(old_text, new_text, DeltaMaxChars)]
  /\ UNCHANGED <<storeVars, call, scrape, embed>>

DeltaInit == InitStore /\ mode = "delta"

DeltaNext == \E old_text \in DeltaTexts, new_text \in DeltaTexts : DeltaAddedText(old_text, new_text)

\* one call of _delta_added_text, on any two texts
DeltaSpec == DeltaInit /\ [][DeltaNext]_vars

\* chunk_text(text, chunk_size_chars, overlap_chars) is entered
ChunkText(text, chunk_size_chars, overlap_chars) ==
  /\ calc = NoCalc
  /\ calc' = ChunkEntered(text, chunk_size_chars, overlap_chars)
  /\ UNCHANGED <<storeVars, call, scrape, embed>>

\* chunk_text, lines 35-42: the loop condition and one pass
ChunkStep ==
  /\ calc.fn = "chunk" /\ calc.pc = "loop"
  /\ calc.start < Len(calc.t)
  /\ Len(calc.spans) < MaxChunks
  /\ calc' = ChunkPass(calc, Min2(Len(calc.t), calc.start + calc.chunk_size_chars))
  /\ UNCHANGED <<storeVars, call, scrape, embed>>

ChunkInit == InitStore /\ mode = "chunk"

ChunkNext ==
  \/ \E text \in ChunkTexts, w \in 0..MaxWindow, o \in 0..MaxWindow : ChunkText(text, w, o)
  \/ ChunkStep

\* one call of chunk_text, on any text, window and overlap
ChunkSpec == ChunkInit /\ [][ChunkNext]_vars

\* config.py, lines 18-23: the environment read when the detector is loaded
EmbedConfig(cfg, flag) ==
  /\ embed = NoEmbed
  /\ embed' = [pc |-> "idle", cfg |-> cfg, flag |-> flag, snapshots |-> <<>>,
               changes |-> <<>>, vectors |-> <<>>, now |-> 0, todo |-> <<>>,
               runs |-> 0, step |-> NoStep]
  /\ UNCHANGED <<storeVars, call, scrape, calc>>

\* a snapshot of a source is stored between two runs of the detector
EmbedIngest(s, text) ==
  /\ embed.pc = "idle"
  /\ Len(embed.snapshots) < MaxEmbedSnaps
  /\ embed' = [embed EXCEPT
       !.snapshots = Append(@, [source_id |-> s, content_hash |-> TextSha(text),
                                fetched_at |-> embed.now + 1, clean_text |-> text]),
       !.now = @ + 1,
       !.step = NoStep]
  /\ UNCHANGED <<storeVars, call, scrape, calc>>

\* detect_changes.main, lines 68-77, EMBED_DELTAS_ON_CHANGE read
EmbedRunStart ==
  /\ embed.pc = "idle"
  /\ embed.runs < MaxEmbedRuns
  /\ embed' = [embed EXCEPT !.pc = "loop", !.now = @ + 1, !.runs = @ + 1,
                            !.todo = [i \in 1..NumEmbedSources |-> i],
                            !.step = NoStep]
  /\ UNCHANGED <<storeVars, call, scrape, calc>>

\* a variant: a failure inside the try block ends the run
EmbedDetectedOrAborted(s, snaps2, chs2, res) ==
  embed' = [embed EXCEPT
    !.changes = chs2,
    !.vectors = res.vectors,
    !.todo = IF res.caught THEN @ ELSE Tail(@),
    !.pc = IF res.caught THEN "aborted"
           ELSE IF Len(embed.todo) > 1 THEN "loop" ELSE "idle",
    !.step = [source |-> s, differ |-> HashesDiffer(embed.snapshots, snaps2),
              pair |-> snaps2, delta |-> res.delta, caught |-> res.caught,
              embedded |-> res.embedded, before |-> embed.vectors]]

\* the detector after one source: the loop goes on, or the run is over
EmbedDetected(s, snaps2, chs2, res) ==
  embed' = [embed EXCEPT
    !.changes = chs2,
    !.vectors = res.vectors,
    !.todo = Tail(@),
    !.pc = IF Len(embed.todo) > 1 THEN "loop" ELSE "idle",
    !.step = [source |-> s, differ |-> HashesDiffer(embed.snapshots, snaps2),
              pair |-> snaps2, delta |-> res.delta, caught |-> res.caught,
              embedded |-> res.embedded, before |-> embed.vectors]]

EmbedDetectSource(s, snaps2, fault) ==
  EmbedDetected(s, snaps2,
    DetectLatest(embed.changes, embed.snapshots, s, embed.now, snaps2),
    AfterChange(embed.vectors, embed.snapshots, s, snaps2, embed.flag, embed.cfg, fault))

\* detect_changes.main, lines 79-129: the next source, its delta embedded
EmbedDetectStep(fault) ==
  /\ embed.pc = "loop"
  /\ EmbedDetectSource(Head(embed.todo),
       LatestSnapshots(embed.snapshots, Head(embed.todo), 2, tieHigh), fault)
  /\ UNCHANGED <<storeVars, call, scrape, calc>>

EmbedInit == InitStore /\ mode = "embed"

EmbedNext ==
  \/ \E cfg \in ChunkConfigs, flag \in BOOLEAN : EmbedConfig(cfg, flag)
  \/ \E s \in 1..NumEmbedSources, text \in EmbedTexts : EmbedIngest(s, text)
  \/ EmbedRunStart
  \/ \E fault \in EmbedFaults : EmbedDetectStep(fault)

\* runs of the Change Detector with EMBED_DELTAS_ON_CHANGE, snapshots stored between them
EmbedSpec == EmbedInit /\ [][EmbedNext]_vars

(* --------------- get_uninsighted_changes on any changes table ------------- *)
MaxFetchChanges == 4   \* rows of the changes table
MaxFetchTime == 3      \* values of created_at
MaxFetchBatch == 2     \* the limit asked for, from 1 to this

\* a changes table of n rows with the given created_at values
FetchChanges(n, at) ==
  [i \in 1..n |->
     [source_id |-> 1,
      prev_snapshot_id |-> i,
      new_snapshot_id |-> i + 1,
      diff_json |-> [type |-> "hashes", prev_hash |-> i, new_hash |-> i + 1],
      created_at |-> at[i]]]

\* an insights table holding a row for every Change marked in `has`
FetchInsights(n, has) ==
  LET Marked(i) == has[i]
  IN [k \in 1..Len(SelectSeq([i \in 1..n |-> i], Marked)) |->
        [change_id |-> Some(SelectSeq([i \in 1..n |-> i], Marked)[k])]]

\* get_uninsighted_changes(limit) is called on a changes and an insights table
FetchUninsighted(chs, ins, limit) ==
  /\ calc = NoCalc
  /\ calc' = [fn |-> "fetch", changes |-> chs, insights |-> ins, limit |-> limit,
              out |-> get_uninsighted_changes(chs, ins, limit, tieHigh)]
  /\ UNCHANGED <<storeVars, call, scrape, embed>>

FetchInit == InitStore /\ mode = "fetch"

FetchNext ==
  \E n \in 0..MaxFetchChanges, limit \in 1..MaxFetchBatch :
    \E at \in [1..n -> 1..MaxFetchTime], has \in [1..n -> BOOLEAN] :
      FetchUninsighted(FetchChanges(n, at), FetchInsights(n, has), limit)

\* one call of get_uninsighted_changes, on any table of Changes and Insights
FetchSpec == FetchInit /\ [][FetchNext]_vars

(* ------------- the start of a run, and the credentials it needs ---------- *)
EnvKeys ==
  {"SUPABASE_URL", "SUPABASE_SERVICE_ROLE_KEY", "SUPABASE_KEY", "GROQ_API_KEY",
   "LLM_BASE_URL", "LLM_API_KEY"}

Programs == {"scrape", "ios", "detect", "groq", "monstral"}

\* a stage of a run: the variables it wants set (one of each group), then what it does
Stage(check, effect) == [check |-> check, effect |-> effect]

\* config.validate_env, as get_supabase_client of db.py calls it
validate_env == {{"SUPABASE_URL"}, {"SUPABASE_SERVICE_ROLE_KEY"}}

\* scrape_sources._get_supabase_client, lines 102-107
_get_supabase_client == {{"SUPABASE_URL"}, {"SUPABASE_SERVICE_ROLE_KEY", "SUPABASE_KEY"}}

\* a variant: the client is made before the page is fetched
ScrapeStagesClientFirst ==
  <<Stage(_get_supabase_client, "none"), Stage({}, "fetch"), Stage({}, "write")>>

\* scrape_and_store: fetch_and_clean, then insert_to_supabase
ScrapeStages ==
  <<Stage({}, "fetch"), Stage(_get_supabase_client, "none"), Stage({}, "write")>>

\* ios_release_notes_121161.main, lines 150-185
IosStages ==
  <<Stage(validate_env, "none"), Stage({}, "write"), Stage({}, "fetch"), Stage({}, "write")>>

\* detect_changes.main, lines 67-110
DetectStages == <<Stage(validate_env, "none"), Stage({}, "read"), Stage({}, "write")>>

\* generate_insights_groq: the import, lines 16-18, and run
GroqStages ==
  <<Stage({{"GROQ_API_KEY"}}, "none"), Stage(validate_env, "none"), Stage({}, "read"),
    Stage({}, "llm"), Stage({}, "write")>>

\* generate_insights_monstral: the import, lines 17-23, and run_insights_pipeline
MonstralStages ==
  <<Stage({{"LLM_BASE_URL"}}, "none"), Stage({{"LLM_API_KEY"}}, "none"),
    Stage(validate_env, "none"), Stage({}, "read")>>

Stages(program) ==
  CASE program = "scrape" -> ScrapeStages
    [] program = "ios" -> IosStages
    [] program = "detect" -> DetectStages
    [] program = "groq" -> GroqStages
    [] program = "monstral" -> MonstralStages

\* every group of the check has a variable that is set
Passes(check, env) == \A g \in check : g \cap env # {}

\* the run after its next stage: the RuntimeError of a failed check ends it
AfterStage(c, stage) ==
  IF ~Passes(stage.check, c.env) THEN [c EXCEPT !.pc = "raised"]
  ELSE [c EXCEPT !.at = @ + 1,
                 !.events = IF stage.effect = "none" THEN @ ELSE Append(@, stage.effect),
                 !.pc = IF c.at = Len(Stages(c.program)) THEN "done" ELSE "run"]

\* a program of the pipeline is started in an environment
StartProgram(program, env) ==
  /\ calc = NoCalc
  /\ calc' = [fn |-> "start", program |-> program, env |-> env, at |-> 1,
              events |-> <<>>, pc |-> "run"]
  /\ UNCHANGED <<storeVars, call, scrape, embed>>

\* the next stage of the run
ProgramStep ==
  /\ calc.fn = "start" /\ calc.pc = "run"
  /\ calc' = AfterStage(calc, Stages(calc.program)[calc.at])
  /\ UNCHANGED <<storeVars, call, scrape, embed>>

StartInit == InitStore /\ mode = "start"

StartNext ==
  \/ \E program \in Programs, env \in SUBSET EnvKeys : StartProgram(program, env)
  \/ ProgramStep

\* one run of one program of the pipeline, in any environment
StartSpec == StartInit /\ [][StartNext]_vars

(* ------------- generator runs after a Change that failed ----------------- *)
\* the triage call raises; the Change and the changes table of that moment are noted
TriageFailsNoted(p) ==
  /\ TriageFailed(p)
  /\ calc' = [fn |-> "failed", change |-> Head(proc[p].cands).id, chs |-> changes]
  /\ UNCHANGED <<call, scrape, embed>>

AgainInit == InitStore /\ mode = "again"

AgainNext ==
  \/ \E s \in IngestSources, hs \in IngestLists : AllIdle /\ IngestRun(s, hs)
  \/ DetectStart("p1")
  \/ DetectStep("p1")
  \/ GroqStart("p1")
  \/ BootPlan("p1")
  \/ BootInsert("p1")
  \/ Fetch("p1")
  \/ TriageFailsNoted("p1")
  \/ GroqSkip("p1", TriageIrrelevant)
  \/ GroqAnalyze("p1", TriagePasses, AnalysisFull)

\* ingest, detector and generate_insights_groq runs one after the other, the batch of
\* one Change
AgainSpec == AgainInit /\ [][AgainNext]_vars

(* ------------- ingest runs, and the detector run again and again --------- *)
LinkInit == InitStore /\ mode = "link"

LinkNext ==
  \/ \E s \in IngestSources, hs \in IngestLists : AllIdle /\ IngestRun(s, hs)
  \/ DetectStart("p1")
  \/ DetectStep("p1")

\* snapshots are ingested at any time between the runs of the Change Detector, which is
\* started again after every ingest and runs to its end
LinkSpec ==
  LinkInit /\ [][LinkNext]_vars /\ WF_vars(DetectStart("p1")) /\ WF_vars(DetectStep("p1"))

(* ------------- generator runs over a backlog of Changes ------------------ *)
\* the longest backlog: one Change more than the window of get_uninsighted_changes
MaxBacklog == WindowFactor * BacklogLimit + 1

\* n + 1 snapshots of source 1, stored one after the other before the runs
BacklogSnapshots(n) ==
  [i \in 1..(n + 1) |->
     [source_id |-> 1, content_hash |-> (i % NumHashes) + 1, fetched_at |-> i - (n + 1)]]

\* the Changes the detector wrote for them, one run after each ingest
BacklogChanges(n) ==
  [i \in 1..n |->
     [source_id |-> 1,
      prev_snapshot_id |-> i,
      new_snapshot_id |-> i + 1,
      diff_json |-> [type |-> "hashes",
                     prev_hash |-> BacklogSnapshots(n)[i].content_hash,
                     new_hash |-> BacklogSnapshots(n)[i + 1].content_hash],
      created_at |-> i - n]]

\* a store with a backlog of Changes, none with an Insight
BacklogInit ==
  /\ \E n \in 1..MaxBacklog :
       /\ snapshots = BacklogSnapshots(n)
       /\ changes = BacklogChanges(n)
  /\ insights = <<>>
  /\ clock = 0
  /\ tieHigh \in BOOLEAN
  /\ proc = [p \in Procs |-> Idle]
  /\ rejected = {}
  /\ last = NoLast
  /\ runLog = <<>>
  /\ bootHist = <<>>
  /\ call = NoCall
  /\ scrape = NoScrape
  /\ calc = NoCalc
  /\ embed = NoEmbed
  /\ mode = "backlog"

\* runs of generate_insights_groq.run one after the other, every LLM call answered;
\* no ingest and no detector run, and the bootstrapper finds nothing to insert
BacklogNext ==
  \/ GroqStart("p1")
  \/ BootPlan("p1")
  \/ Fetch("p1")
  \/ \E tr \in TriageInputs : GroqSkip("p1", tr)
  \/ \E tr \in TriageInputs : GroqAnalyze("p1", tr, AnalysisFull)

\* the generator is run again and again, and a run that has started goes on
BacklogSpec == BacklogInit /\ [][BacklogNext]_vars /\ WF_vars(BacklogNext)

(* ------------------------------ properties ----------------------------- *)
\* the last two runs were both the Change Detector, with no ingest between them
DetectedTwice ==
  /\ Len(runLog) = 2
  /\ runLog[1].kind = "detect" /\ runLog[2].kind = "detect"

\* the Changes of source s that link snapshot `previous` to snapshot `latest`
Linking(s, latest, previous) ==
  {i \in 1..Len(changes) : /\ changes[i].source_id = s
                           /\ changes[i].prev_snapshot_id = previous
                           /\ changes[i].new_snapshot_id = latest}

OneLink(s, top) ==
  (Len(top) = 2 /\ snapshots[top[1]].content_hash # snapshots[top[2]].content_hash)
    => Cardinality(Linking(s, top[1], top[2])) = 1

\* C1: when the Change Detector has run twice in succession with no snapshot inserted
\* in between, the second run leaves the number of Change rows what the first run made
\* it, and a source whose two latest snapshots differ in hash has exactly one Change
\* linking them.
C1_DetectTwiceAddsNothing ==
  DetectedTwice =>
    /\ runLog[2].pre = runLog[1].post
    /\ runLog[2].post = runLog[1].post
    /\ \A s \in Sources : OneLink(s, LatestSnapshots(snapshots, s, 2, tieHigh))

\* two detector runs in succession, the first of which created a Change
C1_Witness == DetectedTwice /\ runLog[1].post > runLog[1].pre

\* C2: in every reachable state, whatever the interleaving of snapshot insertions,
\* detector runs and bootstrapper runs, no two rows of changes share
\* (source_id, new_snapshot_id).
C2_OneChangePerSourceAndNew ==
  \A i, j \in 1..Len(changes) :
    (changes[i].source_id = changes[j].source_id
       /\ changes[i].new_snapshot_id = changes[j].new_snapshot_id) => i = j

\* a detector upsert landed on a row that was already there, while both processes
\* had a run open
C2_Witness ==
  /\ last.op = "detect" /\ last.hit
  /\ \A p \in Procs : proc[p].pc # "idle"

\* C3: in every reachable state, whatever the interleaving of generator runs, no two
\* rows of insights share a change_id.
C3_OneInsightPerChange ==
  \A i, j \in 1..Len(insights) : insights[i].change_id = insights[j].change_id => i = j

\* a run wrote the Insight of a Change that another run had already written
C3_Witness == last.op = "triage" /\ last.upserts = 1 /\ last.hit

\* the step just taken wrote an Insight
Wrote == last.op = "triage" /\ last.upserts = 1

\* the row holds what the write passed to insert_insight, in every field
RowIsWrite(row, out) ==
  /\ row.title = Some(out.title)
  /\ row.summary = Some(out.summary)
  /\ row.category = out.category
  /\ row.affected_signals = out.affected_signals
  /\ row.recommended_actions = out.recommended_actions
  /\ row.risk_score = out.risk_score
  /\ row.confidence = Some(out.confidence)

\* C4: when an Insight is written for a change_id that already has one, the row equals
\* the second write's content in title, summary, category, affected_signals,
\* recommended_actions, risk_score and confidence.
C4_SecondWriteWins == (Wrote /\ last.hit) => RowIsWrite(last.row[1], last.out[1])

\* the triage reply is below the gate: is_relevant false, or the score under the threshold
BelowGate(tr) == (~is_relevant(tr)) \/ rel_score(tr) < RELEVANCE_THRESHOLD

\* C5: when the triage of a Change answers is_relevant false, or a relevance_score below
\* RELEVANCE_THRESHOLD, the analysis model is not called for that Change in that run.
C5_NoAnalysisBelowGate ==
  (last.op = "triage" /\ last.reply # None /\ BelowGate(last.reply[1]))
    => last.analysis = 0

\* a Change was rejected on its score alone: is_relevant true, the score under the threshold
C5_Witness ==
  /\ last.op = "triage" /\ last.triage = "rejected"
  /\ is_relevant(last.reply[1])
  /\ rel_score(last.reply[1]) < RELEVANCE_THRESHOLD

EmptyList(x) == x = None \/ x = Some(<<>>)

\* C6: the Insight persisted for a Change that triage rejected has risk_score 1,
\* confidence 0.55, category the triage primary_theme, and empty affected_signals and
\* recommended_actions.
C6_NotRelevantInsight ==
  (Wrote /\ last.triage = "rejected") =>
    /\ last.row[1].risk_score = Some(NotRelevantRisk)
    /\ last.row[1].confidence = Some(NotRelevantConfidence)
    /\ last.row[1].category = Some(primary_theme(last.reply[1]))
    /\ EmptyList(last.row[1].affected_signals)
    /\ EmptyList(last.row[1].recommended_actions)

\* the ids a fetch returned
Ids(cands) == {cands[k].id : k \in 1..Len(cands)}

\* C7: a Change that triage classified not relevant has an Insight row; no fetch made
\* after that returns it; and no run that fetched after that calls the triage model
\* for it.
C7_RejectedIsHandled ==
  /\ \A c \in rejected : InsightKeyHits(insights, c) # {}
  /\ \A p \in Procs : Ids(proc[p].cands) \cap proc[p].known = {}
  /\ last.op = "triage" => last.change \notin last.known

\* a generator run fetched its candidates after a Change had been rejected
C7_Witness == \E p \in Procs : proc[p].kind = "groq" /\ proc[p].known # {}

\* the risk_score an analysis reply carries as a JSON integer
IntRisk(ar) == IF ar.risk_score.t = "int" THEN Some(ar.risk_score.n) ELSE None

RiskStoredClamped(k, row) ==
  /\ k > MaxRisk => row.risk_score = Some(MaxRisk)
  /\ k < MinRisk => row.risk_score = Some(MinRisk)

\* C8: every persisted Insight has risk_score unset or an integer in 1..5, and
\* confidence within [0.0, 1.0]; a model value above 5 is stored as 5 and a value
\* below 1 as 1.
C8_RiskAndConfidenceInRange ==
  /\ \A i \in 1..Len(insights) :
       /\ insights[i].risk_score = None \/ insights[i].risk_score[1] \in MinRisk..MaxRisk
       /\ insights[i].confidence # None
       /\ insights[i].confidence[1] \in MinConfidence..MaxConfidence
  /\ (Wrote /\ last.areply # None /\ IntRisk(last.areply[1]) # None)
       => RiskStoredClamped(IntRisk(last.areply[1])[1], last.row[1])

\* the analysis model answered risk_score 9 and confidence 1.5, and the Insight was stored
C8_Witness ==
  /\ Wrote /\ last.areply = Some(AnalysisFull)
  /\ last.row[1].risk_score = Some(MaxRisk)
  /\ last.row[1].confidence = Some(MaxConfidence)

\* the Changes of source s
ChangesOf(s) == {i \in 1..Len(changes) : changes[i].source_id = s}

\* the Baseline Bootstrapper ran twice, nothing else writing snapshots or changes between
BootedTwice == Len(bootHist) = 2

\* C9 as stated: after two bootstrapper runs, every source that had a Snapshot and no
\* Change before the first has exactly one Change, and the second run inserted
\* nothing for it.
C9_AsStated ==
  BootedTwice =>
    \A s \in bootHist[1].elig :
      Cardinality(ChangesOf(s)) = 1 /\ s \notin bootHist[2].ins

\* C9: after two bootstrapper runs, a source that had a Snapshot and no Change before
\* the first has at most one Change; one the first run baselined has exactly one, and
\* the second run inserted nothing for it; and that is so of every such source when
\* there were no more of them than the batch limit.
C9_BaselineOnceWithinLimit ==
  BootedTwice =>
    \A s \in bootHist[1].elig :
      /\ Cardinality(ChangesOf(s)) <= 1
      /\ (s \in bootHist[1].ins \/ Cardinality(bootHist[1].elig) <= BaselineLimit)
           => Cardinality(ChangesOf(s)) = 1 /\ s \notin bootHist[2].ins

\* two bootstrapper runs, the first of which baselined a source
C9_Witness == BootedTwice /\ bootHist[1].ins # {}

\* the baseline Change of source s: prev = new = the latest Snapshot, type "baseline"
HasBaseline(s, top) ==
  \E i \in ChangesOf(s) :
    /\ top # <<>>
    /\ changes[i].prev_snapshot_id = top[1]
    /\ changes[i].new_snapshot_id = top[1]
    /\ changes[i].diff_json.type = "baseline"

BaselinedLatest(s) == HasBaseline(s, LatestSnapshots(snapshots, s, 1, tieHigh))

\* the bootstrapper's most recent run
LastBoot == bootHist[Len(bootHist)]

\* C10 as stated: after a bootstrapper run, every source that had a Snapshot and no
\* Change has its baseline Change, however many such sources there were.
C10_AsStated ==
  bootHist # <<>> => \A s \in LastBoot.elig : BaselinedLatest(s)

\* C10: a bootstrapper run baselines min(limit, n) of the n sources that had a Snapshot
\* and no Change: each of those has a Change with prev_snapshot_id = new_snapshot_id =
\* its latest Snapshot id and diff type "baseline", and the others still have no Change.
C10_BaselinesUpToLimit ==
  bootHist # <<>> =>
    /\ LastBoot.ins \subseteq LastBoot.elig
    /\ Cardinality(LastBoot.ins) = Min2(BaselineLimit, Cardinality(LastBoot.elig))
    /\ \A s \in LastBoot.ins : BaselinedLatest(s) /\ Cardinality(ChangesOf(s)) = 1
    /\ \A s \in LastBoot.elig \ LastBoot.ins : ChangesOf(s) = {}

\* a bootstrapper run that found several such sources and baselined some of them
C10_Witness ==
  /\ bootHist # <<>>
  /\ Cardinality(LastBoot.elig) >= 2
  /\ LastBoot.ins # {}

\* C11: the Baseline Bootstrapper never creates a baseline Change for a source that
\* already has a Change when the insert is made, also when an ingest run and a Change
\* Detector run come between its existence check and its insert.
C11_NoBaselineForSourceWithChange ==
  last.op = "boot" => last.had = {}

\* C12: no write to changes whose key already exists, or that races with another
\* run's write, raises an error: the bootstrapper's insert never fails.
C12_NoWriteRaises ==
  last.op = "boot" => ~last.raised

\* the waits of a call so far are RETRY_BASE_S * 2^k after the k-th failed attempt
WaitsDouble(slept) == \A k \in 1..Len(slept) : slept[k] = RETRY_BASE_S * 2 ^ (k - 1)

\* C13: one invocation of _call_chat_json makes at most MAX_RETRIES requests, returns
\* at the first attempt that succeeds, waits RETRY_BASE_S * 2^k after failed attempt k
\* only when another attempt follows, and raises once the last attempt has failed.
C13_RetryLoop ==
  /\ call.requests <= call.max_retries /\ call.max_retries <= MAX_RETRIES
  /\ call.requests = Len(call.outcomes)
  /\ \A k \in 1..Len(call.outcomes) :
       call.outcomes[k] = "json" => k = Len(call.outcomes) /\ call.pc = "returned"
  /\ call.pc = "returned" => call.outcomes[Len(call.outcomes)] = "json"
  /\ call.pc = "raised" => call.requests = call.max_retries
  /\ call.pc = "try" => call.requests < call.max_retries
  /\ Len(call.slept) = IF call.pc = "try" THEN call.requests
                       ELSE Max2(call.requests - 1, 0)
  /\ WaitsDouble(call.slept)

\* every attempt of a call with the default MAX_RETRIES failed: three waits, then raised
C13_Witness ==
  /\ call.pc = "raised" /\ call.requests = MAX_RETRIES
  /\ call.slept = <<RETRY_BASE_S, 2 * RETRY_BASE_S, 4 * RETRY_BASE_S>>

\* C16: a response that does not parse as JSON ends the call: no request follows it.
C16_ParseFailureIsDefinitive ==
  \A k \in 1..Len(call.outcomes) :
    call.outcomes[k] = "nojson" => k = Len(call.outcomes) /\ call.pc = "raised"

\* the step just taken was the processing of a Change that failed
ChangeFailed(l) == l.op \in {"triage", "monstral"} /\ l.upserts = 0

\* the run of process p goes on with the `left` Changes that remain of its batch
GoesOn(pr, left) == left > 0 => pr.pc = "loop" /\ Len(pr.cands) = left

\* C14: when the processing of one Change fails in an insight run, no Insight is written
\* and the run goes on with every remaining Change of its batch.
C14_FailureOfOneChangeOnly ==
  [][ChangeFailed(last') =>
       /\ insights' = insights
       /\ \A p \in Procs : proc'[p] # proc[p] => GoesOn(proc'[p], last'.left)]_vars

\* C15: in the two-stage generator an LLM call (triage or analysis) is declared failed
\* only after MAX_RETRIES requests.
C15_FailsAfterRetries ==
  (last.op = "triage" /\ last.upserts = 0) => last.requests = MAX_RETRIES

\* a detector run is under way and the run completed before it was a detector run too:
\* no snapshot was inserted since that run started
Redetecting ==
  /\ \E p \in Procs : proc[p].pc = "detect"
  /\ runLog # <<>> /\ runLog[Len(runLog)].kind = "detect"

\* C17: a Change Detector run over the snapshot data the run before it saw leaves every
\* Change row as it is, created_at included.
C17_RedetectKeepsRows ==
  [][Redetecting => changes' = changes]_vars

\* the step is one of the detector run of process p
DetectorStepOf(p) == proc[p].pc = "detect" /\ proc'[p] # proc[p]

\* nothing to compare, or nothing changed
NothingToDetect(top) ==
  \/ Len(top) < 2
  \/ snapshots[top[1]].content_hash = snapshots[top[2]].content_hash

\* the step wrote one Change of source s linking `previous` to `latest`, and no other row
WroteLink(s, latest, previous) ==
  /\ \E i \in 1..Len(changes') : /\ changes'[i].source_id = s
                                 /\ changes'[i].prev_snapshot_id = previous
                                 /\ changes'[i].new_snapshot_id = latest
  /\ Len(changes') \in {Len(changes), Len(changes) + 1}
  /\ \A i \in 1..Len(changes) :
       (changes[i].source_id # s \/ changes[i].new_snapshot_id # latest)
         => changes'[i] = changes[i]
  /\ changes' # changes

DetectorDoes(s, top) ==
  IF NothingToDetect(top) THEN changes' = changes ELSE WroteLink(s, top[1], top[2])

\* C18: a step of the Change Detector over a source writes nothing when the source has
\* fewer than two snapshots or its two most recent snapshots have equal content_hash, and
\* otherwise writes the one Change linking the previous of the two to the latest.
C18_DetectorWritesOnDifference ==
  [][\A p \in Procs : DetectorStepOf(p) =>
       DetectorDoes(Head(proc[p].todo),
                    LatestSnapshots(snapshots, Head(proc[p].todo), 2, tieHigh))]_vars

\* the detector has just written a Change that was not there
C18_Witness == last.op = "detect" /\ last.upserts = 1 /\ ~last.hit

\* the fetch behind a row gave no page, or a cleaned text below the minimum length
ShortOrFailed(row) == row.status_code = 0 \/ row.clean_text_len < MIN_CLEAN_TEXT_LEN

\* the store took the write of the last scrape_and_store
LastStored == scrape.out # None /\ scrape.out[1].ok

\* C19, as stated: no row is recorded for a fetch that failed or whose cleaned text is
\* shorter than the minimum length.
C19_AsStated ==
  \A i \in 1..Len(scrape.rows) : ~ShortOrFailed(scrape.rows[i])

\* C19: a fetch that failed or whose cleaned text is shorter than the minimum length is
\* marked should_skip with a skip_reason, in the record the store holds and in the status
\* returned, and its record is written like any other: after a write the store took, the
\* table holds the record under its key (url, clean_text_sha256).
C19_ShortPageStoredAsSkip ==
  /\ \A i \in 1..Len(scrape.rows) :
       ShortOrFailed(scrape.rows[i])
         => scrape.rows[i].should_skip /\ scrape.rows[i].skip_reason # None
  /\ scrape.rec # None /\ ShortOrFailed(scrape.rec[1])
       => scrape.out[1].should_skip /\ scrape.out[1].skip_reason # None
  /\ LastStored
       => /\ \E i \in 1..Len(scrape.rows) : scrape.rows[i] = scrape.rec[1]
          /\ Cardinality(ScrapeKeyHits(scrape.rows, scrape.rec[1])) = 1

\* a page answered with status 200 and a text just below the minimum was stored
C19_Witness ==
  /\ LastStored
  /\ scrape.rec[1].status_code < HttpErrorFrom /\ scrape.rec[1].status_code > 0
  /\ scrape.rec[1].clean_text_len = MIN_CLEAN_TEXT_LEN - 1
  /\ \E i \in 1..Len(scrape.rows) : scrape.rows[i] = scrape.rec[1]

\* the row's fingerprint differs from that of the latest snapshot `top` of its source had
\* before the step, or the source had none
DiffersFromLatest(row, top) ==
  top = <<>> \/ snapshots[top[1]].content_hash # row.content_hash

\* C20: a step appends a Snapshot row for a source only when the row's content_hash
\* differs from that of the source's latest snapshot before the step, or the source had
\* none: ingesting unchanged content again adds no row.
C20_AppendOnlyOnNewFingerprint ==
  [][\A k \in (Len(snapshots) + 1)..Len(snapshots') :
       DiffersFromLatest(snapshots'[k],
         LatestSnapshots(snapshots, snapshots'[k].source_id, 1, tieHigh))]_vars

\* the rows of source s among the rows a step appended to snapshots
AppendedFor(s) ==
  {k \in (Len(snapshots) + 1)..Len(snapshots') : snapshots'[k].source_id = s}

\* C21: one ingest run adds at most one Snapshot row per source.
C21_OneRowPerSourcePerRun ==
  [][\A s \in Sources : Cardinality(AppendedFor(s)) <= 1]_vars

\* C22: a Snapshot row is never changed or deleted once written, whatever is ingested
\* afterwards.
C22_SnapshotRowsImmutable ==
  [][/\ Len(scrape.rows') >= Len(scrape.rows)
     /\ \A i \in 1..Len(scrape.rows) : scrape.rows'[i] = scrape.rows[i]]_vars

\* C23: the delta of a text against itself is the empty string.
C23_DeltaOfSameTextIsEmpty ==
  (calc.fn = "delta" /\ calc.old_text = calc.new_text) => calc.out = <<>>

\* a text of several lines was compared with itself
C23_Witness ==
  /\ calc.fn = "delta" /\ calc.old_text = calc.new_text
  /\ Len(splitlines(calc.new_text)) > 1

\* x is y with some of its lines left out
RECURSIVE IsSubSeq(_, _)
IsSubSeq(x, y) ==
  IF x = <<>> THEN TRUE
  ELSE IF y = <<>> THEN FALSE
  ELSE IF Head(x) = Head(y) THEN IsSubSeq(Tail(x), Tail(y))
  ELSE IsSubSeq(x, Tail(y))

\* the lines of `lines` at the positions in S, in their order
RECURSIVE Pick(_, _, _)
Pick(lines, S, k) ==
  IF k > Len(lines) THEN <<>>
  ELSE (IF k \in S THEN <<lines[k]>> ELSE <<>>) \o Pick(lines, S, k + 1)

\* `added` are lines of the new text, in its order, and the other lines of the new text
\* are lines of the old text, in its order
IsInsertion(added, old, new) ==
  \E S \in SUBSET (1..Len(new)) :
    /\ added = Pick(new, S, 1)
    /\ IsSubSeq(Pick(new, (1..Len(new)) \ S, 1), old)

\* the new text is the old text with lines appended
Appended(old, new) == Len(new) >= Len(old) /\ SubSeq(new, 1, Len(old)) = old

\* C24, as stated: the result is the inserted lines joined by newlines, as they are.
C24_AsStated ==
  (calc.fn = "delta" /\ Len(JoinLines(calc.added)) <= DeltaMaxChars)
    => calc.out = JoinLines(calc.added)

\* C24: the lines kept are lines the diff gives as inserted, in the order of the new text,
\* the other lines of the new text being lines of the old text; the result, when at most
\* max_chars long, is these lines joined by newlines with the whitespace at both ends of
\* the joined text stripped; for an old text with lines appended they are the lines
\* appended.
C24_DeltaIsInsertedLinesStripped ==
  calc.fn = "delta" =>
    /\ IsInsertion(calc.added, splitlines(calc.old_text), splitlines(calc.new_text))
    /\ calc.delta = Strip(JoinLines(calc.added))
    /\ Len(calc.delta) <= DeltaMaxChars => calc.out = calc.delta
    /\ Appended(splitlines(calc.old_text), splitlines(calc.new_text))
         => calc.added = SubSeq(splitlines(calc.new_text),
                                Len(splitlines(calc.old_text)) + 1,
                                Len(splitlines(calc.new_text)))

\* old text "A\nB", new text "A\nB\n C": the result is "C"
C24_Witness ==
  /\ calc.fn = "delta"
  /\ calc.old_text = <<"A", "\n", "B">>
  /\ calc.new_text = <<"A", "\n", "B", "\n", " ", "C">>
  /\ calc.out = <<"C">>

\* C25: a delta longer than max_chars is returned as its first int(0.8 * max_chars)
\* characters, the truncation marker, and its last int(0.2 * max_chars) characters; a
\* delta of at most max_chars characters is returned as it is.
C25_DeltaTruncation ==
  calc.fn = "delta" =>
    IF Len(calc.delta) > DeltaMaxChars
    THEN calc.out =
           SubSeq(calc.delta, 1, (4 * DeltaMaxChars) \div 5)
             \o <<TruncationMarker>>
             \o SubSeq(calc.delta, Len(calc.delta) - (DeltaMaxChars \div 5) + 1,
                       Len(calc.delta))
    ELSE calc.out = calc.delta

\* a delta longer than the cap was cut
C25_Witness ==
  /\ calc.fn = "delta" /\ Len(calc.delta) > DeltaMaxChars
  /\ TruncationMarker \in {calc.out[k] : k \in 1..Len(calc.out)}

\* the chunks put together again, the overlap of a chunk with the one before counted once
RECURSIVE Rebuilt(_, _)
Rebuilt(chunks, o) ==
  IF chunks = <<>> THEN <<>>
  ELSE IF Len(chunks) = 1 THEN chunks[1]
  ELSE Rebuilt(SubSeq(chunks, 1, Len(chunks) - 1), o)
         \o SubSeq(chunks[Len(chunks)], o + 1, Len(chunks[Len(chunks)]))

\* chunk_text has returned from a call with 0 < overlap < window
ChunkedWithOverlap ==
  /\ calc.fn = "chunk" /\ calc.pc = "returned"
  /\ 0 < calc.overlap_chars /\ calc.overlap_chars < calc.chunk_size_chars

\* no whitespace at either end of the text or of a window taken from it
NoSpaceAtEnds(s) == s # <<>> /\ ~IsSpace(s[1]) /\ ~IsSpace(s[Len(s)])

CleanWindows ==
  /\ NoSpaceAtEnds(calc.text)
  /\ \A k \in 1..Len(calc.spans) :
       NoSpaceAtEnds(Slice(calc.text, calc.spans[k][1], calc.spans[k][2]))

\* C27, as stated: with 0 < o < w the chunks of every text t, overlaps counted once,
\* concatenate back to t, and the chunks of the empty text are the empty sequence.
C27_AsStated ==
  ChunkedWithOverlap => Rebuilt(calc.chunks, calc.overlap_chars) = calc.text

\* C27: with 0 < o < w the chunks, overlaps counted once, concatenate back to t when
\* neither t nor any window taken from it begins or ends with whitespace; the chunks of
\* an empty or whitespace-only text are the empty sequence.
C27_ChunksRebuildCleanText ==
  ChunkedWithOverlap =>
    /\ CleanWindows => Rebuilt(calc.chunks, calc.overlap_chars) = calc.text
    /\ Strip(calc.text) = <<>> => calc.chunks = <<>>

\* a text without whitespace at any window end was cut into three chunks
C27_Witness ==
  /\ ChunkedWithOverlap /\ CleanWindows
  /\ Len(calc.chunks) = 3

\* the two latest snapshots of the source the detector is about to handle
NextPair == LatestSnapshots(embed.snapshots, Head(embed.todo), 2, tieHigh)

\* the detector is about to handle a source whose two latest hashes differ
AtChangedSource == embed.pc = "loop" /\ HashesDiffer(embed.snapshots, NextPair)

\* the Change of source s to snapshot `latest` is in the table
ChangeRecorded(chs, s, latest) ==
  \E i \in 1..Len(chs) : chs[i].source_id = s /\ chs[i].new_snapshot_id = latest

\* the run has gone on to the next source, or has ended with the last one
WentOn ==
  /\ embed'.todo = Tail(embed.todo)
  /\ embed'.pc = IF Len(embed.todo) > 1 THEN "loop" ELSE "idle"

NoInsertedLines(snaps, pair) ==
  out_lines(snaps[pair[2]].clean_text, snaps[pair[1]].clean_text) = <<>>

\* C26: when the hashes of a source's two latest snapshots differ but the delta has no
\* inserted lines, the Change row is still recorded, no vector_chunks row is written
\* and the run goes on with the next source.
C26_EmptyDeltaRecordedNotEmbedded ==
  [][(AtChangedSource /\ NoInsertedLines(embed.snapshots, NextPair))
       => /\ ChangeRecorded(embed'.changes, Head(embed.todo), NextPair[1])
          /\ embed'.vectors = embed.vectors
          /\ WentOn]_vars

\* source 1 changed by losing a line, nothing was embedded and source 2 is next
C26_Witness ==
  /\ embed.pc = "loop" /\ embed.flag
  /\ embed.step.source = 1 /\ embed.step.differ /\ ~embed.step.caught
  /\ NoInsertedLines(embed.snapshots, embed.step.pair)
  /\ ChangeRecorded(embed.changes, 1, embed.step.pair[1])
  /\ embed.vectors = <<>>

\* the detector has just embedded the delta of a source
JustEmbedded == embed.pc \in {"idle", "loop"} /\ embed.step.source # 0 /\ embed.step.embedded

VectorKeysUnique(vecs) == \A i \in 1..Len(vecs) : VectorKeyHits(vecs, vecs[i]) = {i}

\* C28: embedding the same delta for the same (source_id, snapshot_sha) a second time
\* leaves vector_chunks as it was after the first, one row per
\* (source_id, snapshot_sha, kind, chunk_index).
C28_EmbedDeltaIdempotent ==
  JustEmbedded =>
    /\ _embed_delta(embed.vectors, StrOfId(embed.step.source),
                    embed.snapshots[embed.step.pair[1]].content_hash,
                    embed.step.delta, embed.cfg) = embed.vectors
    /\ VectorKeysUnique(embed.vectors)

\* a second run embedded a delta of two chunks again and the table is as it was
C28_Witness ==
  /\ JustEmbedded /\ embed.runs = 2
  /\ embed.step.before = embed.vectors
  /\ Len(embed.vectors) = 2

\* the detector has just caught a failure of the try block of a source
JustCaught == embed.pc \in {"idle", "loop", "aborted"} /\ embed.step.source # 0 /\ embed.step.caught

\* the rows of the delta of the source just handled are in the table
DeltaStored ==
  \A k \in 1..Len(chunk_text(embed'.step.delta, embed.cfg[1], embed.cfg[2])) :
    \E i \in 1..Len(embed'.vectors) :
      /\ embed'.vectors[i].source_id = StrOfId(embed'.step.source)
      /\ embed'.vectors[i].chunk_index = k - 1
      /\ embed'.vectors[i].chunk_text = chunk_text(embed'.step.delta, embed.cfg[1], embed.cfg[2])[k]

\* C29: a failure of delta extraction or embedding for one source is caught: the
\* source's Change row stays recorded, and the Change and the embedding of a later
\* source of the batch are still made.
C29_EmbedFailureIsolated ==
  [][/\ (AtChangedSource /\ embed'.step.caught)
          => ChangeRecorded(embed'.changes, Head(embed.todo), NextPair[1]) /\ WentOn
     /\ (JustCaught /\ embed.step.source < NumEmbedSources)
          => /\ embed.pc = "loop" /\ embed'.step.source = embed.step.source + 1
             /\ AtChangedSource
                  => ChangeRecorded(embed'.changes, Head(embed.todo), NextPair[1])
             /\ (AtChangedSource /\ embed.flag /\ ~embed'.step.caught
                   /\ ~NoInsertedLines(embed.snapshots, NextPair))
                  => embed'.step.embedded /\ DeltaStored]_vars

\* the embedding of source 1 failed and was caught, and the delta of source 2 was embedded
C29_Witness ==
  /\ embed.pc = "idle" /\ embed.step.source = 2 /\ embed.step.embedded
  /\ embed.flag
  /\ \E i \in 1..Len(embed.changes) :
       /\ embed.changes[i].source_id = 1 /\ embed.changes[i].created_at = embed.now
       /\ ~NoInsertedLines(embed.snapshots, <<embed.changes[i].new_snapshot_id,
                                              embed.changes[i].prev_snapshot_id>>)
  /\ \A i \in 1..Len(embed.vectors) : embed.vectors[i].source_id = StrOfId(2)

\* the Changes of the table of the call that have no Insight row
Lacking ==
  {i \in 1..Len(calc.changes) :
     \A k \in 1..Len(calc.insights) : calc.insights[k].change_id # Some(i)}

Returned == {calc.out[k].id : k \in 1..Len(calc.out)}

\* at most `limit` Changes, none with an Insight, most recent first
BoundedLackingOrdered ==
  /\ Len(calc.out) <= calc.limit
  /\ Returned \subseteq Lacking
  /\ \A k \in 1..(Len(calc.out) - 1) :
       calc.changes[calc.out[k].id].created_at
         >= calc.changes[calc.out[k + 1].id].created_at

\* the most recent of all the Changes lacking an Insight, as many as the limit allows
MostRecentLacking ==
  /\ Cardinality(Returned) = Min2(calc.limit, Cardinality(Lacking))
  /\ \A i \in Returned, j \in Lacking \ Returned :
       calc.changes[i].created_at >= calc.changes[j].created_at

\* C30: get_uninsighted_changes(limit) returns at most limit Changes, none of which has
\* an Insight row, most recent first by created_at, and they are the most recent
\* Changes lacking an Insight in the whole changes table.
C30_MostRecentUninsighted ==
  calc.fn = "fetch" => BoundedLackingOrdered /\ MostRecentLacking

\* C38: chunk_text terminates for every text, window and overlap, an overlap of the
\* window or more included: every pass of the loop that does not return moves the
\* start of the window forward.
C38_EveryPassAdvances ==
  [][(calc.fn = "chunk" /\ calc.pc = "loop" /\ calc'.pc = "loop")
       => calc'.start > calc.start]_vars

\* the kind 'delta' rows of vector_chunks under one (source_id, snapshot_sha)
DeltaRowsUnder(vecs, source_id, snapshot_sha) ==
  {vecs[i] : i \in {j \in 1..Len(vecs) : /\ vecs[j].source_id = source_id
                                         /\ vecs[j].snapshot_sha = snapshot_sha
                                         /\ vecs[j].kind = "delta"}}

\* the rows _embed_delta builds for the delta just embedded
RowsJustEmbedded ==
  DeltaRows(StrOfId(embed.step.source),
            embed.snapshots[embed.step.pair[1]].content_hash,
            chunk_text(embed.step.delta, embed.cfg[1], embed.cfg[2]))

\* C39: for every (source_id, snapshot_sha) the kind 'delta' rows of vector_chunks are
\* exactly the chunks 0..n-1 of the delta embedded last for that key; no chunk of an
\* earlier, longer delta stays next to them.
C39_OnlyChunksOfLastDelta ==
  JustEmbedded =>
    DeltaRowsUnder(embed.vectors, StrOfId(embed.step.source),
                   embed.snapshots[embed.step.pair[1]].content_hash)
      = {RowsJustEmbedded[k] : k \in 1..Len(RowsJustEmbedded)}

\* process p enters the Baseline Bootstrapper in this step
EntersBoot(p) == proc[p].pc # "boot" /\ proc'[p].pc = "boot"

\* the step is the first fetch of a run of p, and the fetch returned no Change
FirstFetchEmpty(p) ==
  /\ GroqStart(p)
  /\ get_uninsighted_changes(changes, insights, GroqLimit, tieHigh) = <<>>

\* where a run stands after a step taken at pc `from`
RunOrder(from, to) ==
  \/ to = from
  \/ to = "idle"
  \/ from = "idle" /\ to \in {"boot", "loop", "detect"}
  \/ from = "boot" /\ to \in {"insert", "fetch"}
  \/ from = "insert" /\ to = "fetch"
  \/ from = "fetch" /\ to = "loop"

\* C31: in one Insight Generator run the Baseline Bootstrapper is invoked only when the
\* first candidate fetch returned no Change, at most once, and the candidates are then
\* fetched again exactly once; a run whose first fetch returned a Change creates no
\* baseline Change.
C31_BootOnlyAfterEmptyFetch ==
  [][\A p \in Procs :
       /\ EntersBoot(p) => FirstFetchEmpty(p)
       /\ RunOrder(proc[p].pc, proc'[p].pc)]_vars

\* the Change handled by the step ended skipped-irrelevant or analyzed
EndedWithInsight(l) ==
  \/ l.triage = "rejected"
  \/ l.triage = "passed" /\ l.areply # None

\* exactly one row of insights was written, the one of Change c
OneInsightUpsert(c) ==
  /\ Cardinality(InsightKeyHits(insights', c)) = 1
  /\ Len(insights') = Len(insights) + (IF InsightKeyHits(insights, c) = {} THEN 1 ELSE 0)
  /\ \A i \in 1..Len(insights) : insights[i].change_id # Some(c) => insights'[i] = insights[i]

\* C33: each candidate Change goes fetched -> triaged -> (skipped-irrelevant | analyzed)
\* or failed: one triage call at most, before any analysis call, one analysis call at
\* most and only past the gate, exactly one Insight upsert when the Change ends
\* skipped-irrelevant or analyzed and none when it fails.
C33_ChangeStateMachine ==
  [][last'.op \in {"triage", "monstral"} =>
       /\ last'.triage \in {"none", "failed", "rejected", "passed"}
       /\ last'.analysis <= 1
       /\ last'.analysis = 1 =>
            /\ last'.triage = "passed" /\ last'.reply # None
            /\ ~TriageRejects(last'.reply[1])
       /\ last'.triage = "rejected" => last'.reply # None /\ TriageRejects(last'.reply[1])
       /\ IF EndedWithInsight(last')
          THEN last'.upserts = 1 /\ OneInsightUpsert(last'.change)
          ELSE last'.upserts = 0 /\ insights' = insights]_vars

\* a Change was triaged, passed the gate, was analyzed and got its Insight
C33_Witness ==
  /\ last.op = "triage" /\ last.triage = "passed" /\ last.analysis = 1
  /\ last.areply # None /\ last.upserts = 1
  /\ InsightKeyHits(insights, last.change) # {}

\* the two signals of a baseline Change
SamePair(row) == row.prev_snapshot_id = row.new_snapshot_id

TypedBaseline(row) == row.diff_json.type = "baseline"

\* C34: in every reachable state a Change row has prev_snapshot_id = new_snapshot_id
\* if and only if its diff metadata has type "baseline", also after a Change Detector
\* upsert has hit the key of a baseline Change.
C34_BaselineSignalsAgree ==
  \A i \in 1..Len(changes) : SamePair(changes[i]) <=> TypedBaseline(changes[i])

\* the detector has just rewritten a baseline Change as the Change of two snapshots
C34_Witness ==
  /\ last.op = "detect" /\ last.hit
  /\ SamePair(last.row[1]) /\ TypedBaseline(last.row[1])
  /\ \E i \in 1..Len(changes) :
       /\ changes[i].source_id = last.row[1].source_id
       /\ changes[i].new_snapshot_id = last.row[1].new_snapshot_id
       /\ ~SamePair(changes[i])

\* C35: every Insight was generated from the (prev_snapshot_id, new_snapshot_id) pair its
\* Change row holds: the pair of a Change is never altered once an Insight has been
\* written for it, so no detector upsert turns an analysed baseline Change into a real
\* Change that keeps the baseline Insight.
C35_PairFixedOnceInsighted ==
  [][\A i \in 1..Len(changes) :
       InsightKeyHits(insights, i) # {}
         => /\ changes'[i].prev_snapshot_id = changes[i].prev_snapshot_id
            /\ changes'[i].new_snapshot_id = changes[i].new_snapshot_id]_vars

\* every Change of the table has an Insight
AllInsighted == \A i \in 1..Len(changes) : InsightKeyHits(insights, i) # {}

\* C36: under repeated generator runs in which every LLM call succeeds and no Change is
\* created, every Change eventually has an Insight, whatever the number of Changes.
C36_EveryChangeEventuallyInsighted == <>AllInsighted

\* snapshots a and b are of one source, a fetched before b with no snapshot of the
\* source fetched at the time of either or between them, and their hashes differ
ConsecutivePair(a, b) ==
  /\ a \in 1..Len(snapshots) /\ b \in 1..Len(snapshots)
  /\ snapshots[a].source_id = snapshots[b].source_id
  /\ snapshots[a].fetched_at < snapshots[b].fetched_at
  /\ snapshots[a].content_hash # snapshots[b].content_hash
  /\ \A c \in 1..Len(snapshots) \ {a, b} :
       snapshots[c].source_id = snapshots[a].source_id
         => \/ snapshots[c].fetched_at < snapshots[a].fetched_at
            \/ snapshots[c].fetched_at > snapshots[b].fetched_at

Linked(a, b) ==
  \E i \in 1..Len(changes) :
    changes[i].prev_snapshot_id = a /\ changes[i].new_snapshot_id = b

\* C37: every pair of consecutive snapshots of a source with different fingerprints
\* eventually has a Change row linking them, however many snapshots are ingested
\* between two runs of the Change Detector.
C37_EveryPairEventuallyLinked ==
  \A a, b \in 1..MaxSnaps : ConsecutivePair(a, b) ~> Linked(a, b)

\* a credential the program of the run checks is not set
CredentialsMissing ==
  \E k \in 1..Len(Stages(calc.program)) : ~Passes(Stages(calc.program)[k].check, calc.env)

PipelineWork == {"fetch", "llm", "write"}

\* C32: when a required credential is missing the run fails before any pipeline work:
\* no document fetch, no LLM call and no store write happens in that run.
C32_NoWorkWithoutCredentials ==
  (calc.fn = "start" /\ CredentialsMissing)
    => /\ calc.pc # "done"
       /\ \A k \in 1..Len(calc.events) : calc.events[k] \notin PipelineWork

\* a Change failed in an earlier step and has no Insight
FailedAndLacking == calc.fn = "failed" /\ InsightKeyHits(insights, calc.change) = {}

\* the step ends the fetching of a run of process p: its first fetch returned Changes, or
\* its fetch after the bootstrapper returned
FetchDone(p) ==
  \/ proc[p].pc = "idle" /\ proc'[p].pc = "loop"
  \/ proc[p].pc = "fetch" /\ proc'[p].pc # "fetch"

\* the step is the failure of a Change
FailsNow == calc' # calc /\ calc'.fn = "failed"

\* the failing step leaves the insights table as it was
FailureWritesNothing == FailsNow => insights' = insights

\* C40 as stated: the failure of a Change writes no Insight, and the next run's
\* get_uninsighted_changes returns the Change again.
C40_AsStated ==
  [][/\ FailureWritesNothing
     /\ (FailedAndLacking /\ FetchDone("p1"))
          => calc.change \in Ids(proc'["p1"].cands)]_vars

\* C40: the failure of a Change writes no Insight, and a next run that finds the changes
\* table as the failure left it gets the Change again from get_uninsighted_changes.
C40_FailedChangeFetchedAgain ==
  [][/\ FailureWritesNothing
     /\ (FailedAndLacking /\ changes = calc.chs /\ FetchDone("p1"))
          => calc.change \in Ids(proc'["p1"].cands)]_vars

\* a later run has fetched the Change that failed
C40_Witness ==
  /\ FailedAndLacking /\ changes = calc.chs
  /\ last = NoLast
  /\ proc["p1"].pc = "loop" /\ calc.change \in Ids(proc["p1"].cands)

====
